---- MODULE Spec2Model ----
(***************************************************************************)
(* Model of underrated-fetch: createCachedFetch (src/underrated-fetch.ts)  *)
(* over the in-memory LRU store createMemoryStore (memory-store.ts).       *)
(*                                                                         *)
(* Every `await` of the source is a point where other callers, other       *)
(* in-flight computations and the clock may run; the code between two      *)
(* awaits is one atomic action.  A memory-store operation takes effect     *)
(* when it is called (its body is synchronous); its caller resumes later,  *)
(* and pending awaits resume in any order.                                 *)
(***************************************************************************)
EXTENDS Integers, Sequences, FiniteSets, TLC

\* ---------------------------------------------------------------- bounds
MaxCalls == 2          \* number of cachedFetch() invocations explored
MaxTime == 3           \* Date.now() ranges over 0..MaxTime
MaxStoreSize == 2      \* memoryStoreOptions.maxSize ranges over 1..MaxStoreSize
DefaultTimeToLive == 2 \* options.timeToLive of the orchestrator

\* ---------------------------------------------------------------- inputs
None == << >>
Some(x) == << x >>

\* JavaScript values an option may hold. A number is finite, infinite or NaN;
\* a finite one is the integer n, or n + 1/2 when it is not integral; an
\* infinite one has the sign of n.
num(n) == [type |-> "number", kind |-> "finite", n |-> n, integral |-> TRUE]
half(n) == [type |-> "number", kind |-> "finite", n |-> n, integral |-> FALSE]
PosInfinity == [type |-> "number", kind |-> "infinite", n |-> 1, integral |-> FALSE]
NegInfinity == [type |-> "number", kind |-> "infinite", n |-> -1, integral |-> FALSE]
NaN == [type |-> "number", kind |-> "nan", n |-> 0, integral |-> FALSE]
str(n) == [type |-> "string", kind |-> "finite", n |-> n, integral |-> TRUE]

\* value <= 0 : false for NaN
lessOrEqualZero(value) ==
  /\ value.kind # "nan"
  /\ IF value.integral THEN value.n <= 0 ELSE value.n < 0

\* Number.isFinite(value), Number.isInteger(value)
isFinite(value) == value.type = "number" /\ value.kind = "finite"
isInteger(value) == isFinite(value) /\ value.integral

\* Call identities; the follow-up specification issues one call more.
Calls == 1..(MaxCalls + 1)

\* An absolute URL string, by its parts: scheme://host, then the path, then
\* "?" and the query when query is not None.
Url(scheme, host, path, query) ==
  [scheme |-> scheme, host |-> host, path |-> path, query |-> query]

\* URLs a caller may pass: two paths of one origin.
Urls ==
  { Url("https", "h1", "/a", None), Url("https", "h1", "/b", None) }

\* URLs that differ in scheme and host, in the query, or in having an empty
\* query.
KeyUrls ==
  { Url("https", "h1", "/a", None), Url("http", "h2", "/a", None),
    Url("https", "h1", "/a", Some("")), Url("https", "h1", "/a", Some("x")),
    Url("https", "h2", "/a", Some("x")), Url("https", "h1", "/a", Some("y")) }

Methods == {"GET", "POST"}

\* init.timeToLive: undefined, an invalid value, or a valid override
TimeToLiveOpts == {None, Some(num(0)), Some(num(1)), Some(num(3))}

\* Decoded response bodies; shouldCache accepts the ones in CacheWorthy.
Data == {"d1", "d2"}
CacheWorthy == {"d1"}

NetErrors == {"NetworkError", "HTTP"}

\* ---------------------------------------------------------------- state
VARIABLES
  now,               \* Date.now()
  effectiveMaxSize,  \* memory store: capacity
  cache,             \* memory store: Map key -> CacheEntry
  accessOrder,       \* memory store: LRU order, least recent first
  inFlightRequests,  \* orchestrator: Map key -> promise (0 = no entry)
  promise,           \* per originating call: the fetchPromise and its position
  nCalls,            \* number of cachedFetch() calls issued so far
  req,               \* per call: url, init.timeToLive, method
  pc,                \* per call: position in cachedFetch
  gotEntry,          \* per call: getValidEntry's `entry`, what store.get returned
  entry,             \* per call: cachedFetch's `entry`, what getValidEntry returned
  awaiting,          \* per call: the promise the call returned (0 = none)
  result,            \* per call: settled outcome of the returned promise
  hitCalls,          \* per call: keys it passed to onHitCallback, in order
  missCalls,         \* per call: keys it passed to onMissCallback, in order
  fetchCalls,        \* per call: urls it passed to fetch(), in order
  evicted,           \* per call: onEvictCallback invocations of its store.set
  concurrent,        \* per call: the calls still unsettled when it was issued
  issuedWhile,       \* per call: age of its key's entry when it was issued
  storeOp,           \* direct use of the store or of isExpired: the last
                     \* operation and its result
  evictCalls,        \* direct use of the store: its onEvictCallback invocations
  recency,           \* direct use of the store: resident keys by last use
  construction,      \* the factory call: its options and how it ended
  other              \* a second orchestrator: its store, in-flight table, calls

vars == << now, effectiveMaxSize, cache, accessOrder, inFlightRequests,
           promise, nCalls, req, pc, gotEntry, entry, awaiting, result,
           hitCalls, missCalls, fetchCalls, evicted, concurrent, issuedWhile,
           storeOp, evictCalls, recency, construction, other >>

obsVars == << hitCalls, missCalls, fetchCalls, evicted >>

histVars == << concurrent, issuedWhile >>

storeVars == << cache, accessOrder >>

\* What a cachedFetch step leaves alone: the clock, the store's capacity, the
\* record of the store's direct use, the record of the factory call and the
\* state of the other orchestrator.
envVars == << now, effectiveMaxSize, storeOp, evictCalls, recency,
              construction, other >>

\* ---------------------------------------------------------------- helpers
\* Variant of isExpired: the comparison is not strict.
isExpiredAtDeadline(e) == now >= e.expiresAt

isExpired(e) == now > e.expiresAt

createEntry(value, timeToLive) ==
  [value |-> value, createdAt |-> now, expiresAt |-> now + timeToLive]

\* Variant of validTimeToLive: Number.isFinite is not consulted.
validTimeToLiveUnbounded(value) ==
  ~(value.type # "number" \/ lessOrEqualZero(value))

\* validateTimeToLive(value) returns without throwing
validTimeToLive(value) ==
  ~(value.type # "number" \/ lessOrEqualZero(value) \/ ~isFinite(value))

\* if (requestTimeToLive !== undefined) validateTimeToLive(requestTimeToLive)
timeToLiveAccepted(t) == IF t = None THEN TRUE ELSE validTimeToLive(t[1])

\* new URL(url): pathname is "/" for an empty path; search is "" when there
\* is no query or an empty one, and "?" followed by the query otherwise.
URL(url) ==
  [protocol |-> url.scheme \o ":",
   host |-> url.host,
   pathname |-> IF url.path = "" THEN "/" ELSE url.path,
   search |-> IF url.query = None THEN ""
              ELSE IF url.query[1] = "" THEN ""
              ELSE "?" \o url.query[1]]

\* Variant of generateKey: the host is part of the key.
generateKeyWithHost(url) ==
  LET parsed == URL(url)
  IN  parsed.host \o parsed.pathname \o parsed.search

generateKey(url) ==
  LET parsed == URL(url)
  IN  parsed.pathname \o parsed.search

Keys == { generateKey(u) : u \in Urls \cup KeyUrls }

shouldCache(data) == data \in CacheWorthy

\* Variant of timeToLiveOf: an override replaces the default for the calls
\* that follow it.
timeToLiveOfSticky(requestTimeToLive) ==
  LET given == { c \in 1..nCalls : req[c].timeToLive # None }
      valid == { c \in given : validTimeToLive(req[c].timeToLive[1]) }
  IN  IF requestTimeToLive # None THEN requestTimeToLive[1].n
      ELSE IF valid = {} THEN DefaultTimeToLive
      ELSE req[CHOOSE c \in valid : \A d \in valid : d <= c].timeToLive[1].n

\* timeToLive = requestTimeToLive ?? defaultTimeToLive
timeToLiveOf(requestTimeToLive) ==
  IF requestTimeToLive = None THEN DefaultTimeToLive ELSE requestTimeToLive[1].n

\* A decoded body is a fresh object per response: resp names the producer
\* invocation (the call that made it) the object came from.
Value(data, t) == [data |-> data, resp |-> t]

NoOutcome == [kind |-> "pending", what |-> "", resp |-> 0]
Resolved(v) == [kind |-> "value", what |-> v.data, resp |-> v.resp]
Rejected(err, t) == [kind |-> "error", what |-> err, resp |-> t]

\* ---------------------------------------------------------- memory store
indexOf(order, key) ==
  IF \E i \in 1..Len(order) : order[i] = key
  THEN CHOOSE i \in 1..Len(order) :
         order[i] = key /\ \A j \in 1..(i - 1) : order[j] # key
  ELSE 0

splice(order, i) ==
  [j \in 1..(Len(order) - 1) |-> IF j < i THEN order[j] ELSE order[j + 1]]

\* Variant of updateAccessOrder: a key already in the order keeps its place.
updateAccessOrderIfAbsent(order, key) ==
  IF indexOf(order, key) > 0 THEN order ELSE Append(order, key)

updateAccessOrder(order, key) ==
  LET index == indexOf(order, key)
  IN  Append(IF index > 0 THEN splice(order, index) ELSE order, key)

mapDelete(m, key) == [k \in (DOMAIN m) \ {key} |-> m[k]]
mapSet(m, key, e) == [k \in (DOMAIN m) \cup {key} |-> IF k = key THEN e ELSE m[k]]

\* A store state is [cache, order, evicted]; evicted lists the invocations of
\* onEvictCallback by the operation, in order: the key and the entry passed,
\* and the keys the Map holds while the callback runs.
StoreState(c, o, ev) == [cache |-> c, order |-> o, evicted |-> ev]

\* Variant of evictLeastRecentlyUsed: the key at the other end of the order
\* is evicted.
evictMostRecentlyUsed(s) ==
  IF Len(s.order) = 0 THEN s
  ELSE LET mruKey == s.order[Len(s.order)]
       IN  StoreState(mapDelete(s.cache, mruKey),
                      SubSeq(s.order, 1, Len(s.order) - 1),
                      IF mruKey \in DOMAIN s.cache
                      THEN Append(s.evicted,
                                  [key |-> mruKey, entry |-> s.cache[mruKey],
                                   present |-> DOMAIN mapDelete(s.cache, mruKey)])
                      ELSE s.evicted)

evictLeastRecentlyUsed(s) ==
  IF Len(s.order) = 0 THEN s
  ELSE LET lruKey == Head(s.order)
       IN  StoreState(mapDelete(s.cache, lruKey), Tail(s.order),
                      IF lruKey \in DOMAIN s.cache
                      THEN Append(s.evicted,
                                  [key |-> lruKey, entry |-> s.cache[lruKey],
                                   present |-> DOMAIN mapDelete(s.cache, lruKey)])
                      ELSE s.evicted)

\* Variant of evictWhileFull: at most one eviction, and only when the
\* capacity is already exceeded.
evictWhenOverFull(s, maxSize) ==
  IF Cardinality(DOMAIN s.cache) > maxSize
  THEN evictLeastRecentlyUsed(s)
  ELSE s

RECURSIVE evictWhileFull(_, _)
evictWhileFull(s, maxSize) ==
  \* while (cache.size >= effectiveMaxSize) evictLeastRecentlyUsed();
  \* (with an empty accessOrder the source loop would not terminate; the
  \*  order is never empty while the cache is not)
  IF Cardinality(DOMAIN s.cache) >= maxSize /\ Len(s.order) > 0
  THEN evictWhileFull(evictLeastRecentlyUsed(s), maxSize)
  ELSE s

\* Variant of storeSet: the capacity is not enforced.
storeSetUnbounded(c, o, maxSize, key, e) ==
  StoreState(mapSet(c, key, e), updateAccessOrder(o, key), << >>)

\* Variant of storeSet: the new key is inserted first and the eviction that
\* brings the store back to its capacity follows.
storeSetInsertFirst(c, o, maxSize, key, e) ==
  IF key \in DOMAIN c
  THEN StoreState(mapSet(c, key, e), updateAccessOrder(o, key), << >>)
  ELSE LET s == StoreState(mapSet(c, key, e), o, << >>)
           t == IF Cardinality(DOMAIN s.cache) > maxSize
                THEN evictLeastRecentlyUsed(s) ELSE s
       IN  StoreState(t.cache, updateAccessOrder(t.order, key), t.evicted)

storeSet(c, o, maxSize, key, e) ==
  IF key \in DOMAIN c
  THEN StoreState(mapSet(c, key, e), updateAccessOrder(o, key), << >>)
  ELSE LET s == evictWhileFull(StoreState(c, o, << >>), maxSize)
       IN  StoreState(mapSet(s.cache, key, e),
                      updateAccessOrder(s.order, key), s.evicted)

storeGetOrder(c, o, key) ==
  IF key \in DOMAIN c THEN updateAccessOrder(o, key) ELSE o

\* Variant of storeGetEntry: an expired entry is not returned.
storeGetEntryUnlessExpired(c, key) ==
  IF key \in DOMAIN c /\ ~isExpired(c[key]) THEN Some(c[key]) ELSE None

storeGetEntry(c, key) == IF key \in DOMAIN c THEN Some(c[key]) ELSE None

\* Variant of storeDeleteOrder: delete removes the entry and leaves the
\* order as it is.
storeDeleteOrderKept(o, key) == o

\* Variant of storeDeleteOrder: the key is removed and the keys that remain
\* are left in the opposite order.
storeDeleteOrderReversing(o, key) ==
  LET index == indexOf(o, key)
      rest == IF index > 0 THEN splice(o, index) ELSE o
  IN  [i \in 1..Len(rest) |-> rest[Len(rest) + 1 - i]]

storeDeleteOrder(o, key) ==
  LET index == indexOf(o, key)
  IN  IF index > 0 THEN splice(o, index) ELSE o

\* The record of a direct store operation: its name, its key, the entry
\* passed (set only), whether the Map held the key when the operation began,
\* and what the promise it returned resolved to.
\* `during` is the set of calls whose fetchPromise was pending when the
\* operation was made.
NoStoreOp ==
  [op |-> "none", key |-> "", arg |-> None, found |-> FALSE, ret |-> None,
   during |-> {}]
StoreOp(op, key, arg, ret) ==
  [op |-> op, key |-> key, arg |-> arg, found |-> key \in DOMAIN cache, ret |-> ret,
   during |-> { t \in Calls : promise[t].st \in {"fetch", "parse", "set"} }]

\* `recency` lists the resident keys in the order of their last use, where a
\* use is a get of a present key or a set: a used key moves to the end, and a
\* key that is no longer resident drops out.
without(order, keys) == SelectSeq(order, LAMBDA k : k \notin keys)
usedNow(order, key) == Append(without(order, {key}), key)
residentOnly(order, resident) == SelectSeq(order, LAMBDA k : k \in resident)

\* ---------------------------------------------------------- construction
\* const effectiveMaxSize = maxSize ?? 1000
DefaultMaxSize == 1000

\* Options of createCachedFetch; `store` tells whether a store was supplied,
\* memoryStoreOptions.maxSize is None when it is left undefined.
Options(timeToLive, store, maxSize) ==
  [timeToLive |-> timeToLive, store |-> store, maxSize |-> maxSize]

\* Variant of createMemoryStoreThrows: any positive number is accepted.
createMemoryStoreThrowsUnlessPositive(options) ==
  IF options.maxSize = None THEN FALSE
  ELSE LET maxSize == options.maxSize[1]
       IN  maxSize.type # "number" \/ lessOrEqualZero(maxSize)

\* createMemoryStore(options) throws 'maxSize must be a positive integer'
createMemoryStoreThrows(options) ==
  IF options.maxSize = None THEN FALSE
  ELSE LET maxSize == options.maxSize[1]
       IN  maxSize.type # "number" \/ lessOrEqualZero(maxSize)
             \/ ~isInteger(maxSize)

\* Variant of effectiveMaxSizeOf: the default capacity is one less.
effectiveMaxSizeOfOneLess(options) ==
  IF options.maxSize = None THEN DefaultMaxSize - 1 ELSE options.maxSize[1].n

\* Variant of effectiveMaxSizeOf: the default capacity is one more.
effectiveMaxSizeOfOneMore(options) ==
  IF options.maxSize = None THEN DefaultMaxSize + 1 ELSE options.maxSize[1].n

effectiveMaxSizeOf(options) ==
  IF options.maxSize = None THEN DefaultMaxSize ELSE options.maxSize[1].n

\* createCachedFetch(options) throws: validateTimeToLive(defaultTimeToLive),
\* then providedStore ?? createMemoryStore(memoryStoreOptions)
createCachedFetchThrows(options) ==
  IF ~validTimeToLive(options.timeToLive) THEN TRUE
  ELSE IF options.store THEN FALSE
  ELSE createMemoryStoreThrows(options)

Construction(fn, options, outcome) ==
  [fn |-> fn, options |-> options, outcome |-> outcome]

\* No second orchestrator is in use.
NoOther ==
  [cache |-> << >>, accessOrder |-> << >>,
   inFlightRequests |-> [k \in Keys |-> 0], calls |-> {}]

\* ---------------------------------------------------------------- Init
\* A store and an orchestrator that have been used by nobody yet.
Unused ==
  /\ now = 0
  /\ cache = << >>
  /\ accessOrder = << >>
  /\ inFlightRequests = [k \in Keys |-> 0]
  /\ promise = [c \in Calls |-> [st |-> "none", out |-> NoOutcome]]
  /\ nCalls = 0
  /\ req = [c \in Calls |-> [url |-> CHOOSE u \in Urls : TRUE,
                             timeToLive |-> None, method |-> "GET"]]
  /\ pc = [c \in Calls |-> "idle"]
  /\ gotEntry = [c \in Calls |-> None]
  /\ entry = [c \in Calls |-> None]
  /\ awaiting = [c \in Calls |-> 0]
  /\ result = [c \in Calls |-> NoOutcome]
  /\ hitCalls = [c \in Calls |-> << >>]
  /\ missCalls = [c \in Calls |-> << >>]
  /\ fetchCalls = [c \in Calls |-> << >>]
  /\ evicted = [c \in Calls |-> << >>]
  /\ concurrent = [c \in Calls |-> {}]
  /\ issuedWhile = [c \in Calls |-> "absent"]
  /\ storeOp = NoStoreOp
  /\ evictCalls = << >>
  /\ recency = << >>
  /\ other = NoOther

\* The state after createCachedFetch({ timeToLive: DefaultTimeToLive,
\* memoryStoreOptions: { maxSize } }) with maxSize in 1..MaxStoreSize.
Init ==
  /\ effectiveMaxSize \in 1..MaxStoreSize
  /\ construction =
       Construction("createCachedFetch",
                    Options(num(DefaultTimeToLive), FALSE,
                            Some(num(effectiveMaxSize))),
                    "returned")
  /\ Unused

keyOf(c) == generateKey(req[c].url)

\* ---------------------------------------------------------------- clock
Tick ==
  /\ now < MaxTime
  /\ now' = now + 1
  /\ UNCHANGED << effectiveMaxSize, storeOp, evictCalls, recency,
                  construction, other, storeVars,
                  inFlightRequests, promise, nCalls, req, pc, gotEntry, entry,
                  awaiting, result, obsVars, histVars >>

\* ------------------------------------------------ cachedFetch: entry
settledStates == {"resolved", "rejected"}

\* The promise call c returned is settled, or follows a settled fetchPromise.
callSettled(c) ==
  \/ pc[c] = "done"
  \/ pc[c] = "wait" /\ promise[awaiting[c]].st \in settledStates

unsettledCalls == { c \in 1..nCalls : ~callSettled(c) }

\* How the current time relates to the lifetime of the entry stored for key.
ageOf(key) ==
  IF key \notin DOMAIN cache THEN "absent"
  ELSE IF now < cache[key].expiresAt THEN "before"
  ELSE IF now = cache[key].expiresAt THEN "at"
  ELSE "after"

\* Bookkeeping common to every cachedFetch(url, init) invocation.
issue(c, u, t, m) ==
  /\ c = nCalls + 1
  /\ nCalls' = c
  /\ req' = [req EXCEPT ![c] = [url |-> u, timeToLive |-> t, method |-> m]]
  /\ concurrent' = [concurrent EXCEPT ![c] = unsettledCalls]
  /\ issuedWhile' = [issuedWhile EXCEPT ![c] = ageOf(generateKey(u))]

\* Invalid init.timeToLive: validateTimeToLive throws, the call rejects.
CallInvalid(u, t, m) ==
  /\ ~timeToLiveAccepted(t)
  /\ LET c == nCalls + 1
     IN  /\ issue(c, u, t, m)
         /\ pc' = [pc EXCEPT ![c] = "done"]
         /\ result' = [result EXCEPT ![c] = Rejected("ValidationError", 0)]
  /\ UNCHANGED << envVars, storeVars, inFlightRequests, promise, gotEntry,
                  entry, awaiting, obsVars >>

\* Variant of CallNonGet: the method is ignored and the call takes the
\* cached path.
CallNonGetCached(u, t, m) ==
  /\ timeToLiveAccepted(t)
  /\ m # "GET"
  /\ LET c == nCalls + 1
         key == generateKey(u)
     IN  /\ issue(c, u, t, m)
         /\ gotEntry' = [gotEntry EXCEPT ![c] = storeGetEntry(cache, key)]
         /\ accessOrder' = storeGetOrder(cache, accessOrder, key)
         /\ pc' = [pc EXCEPT ![c] = "storeGet"]
  /\ UNCHANGED << envVars, cache, inFlightRequests, promise, entry, awaiting,
                  result, obsVars >>

\* method !== 'GET': fetch(url, fetchInit) is called, the call awaits it.
CallNonGet(u, t, m) ==
  /\ timeToLiveAccepted(t)
  /\ m # "GET"
  /\ LET c == nCalls + 1
     IN  /\ issue(c, u, t, m)
         /\ pc' = [pc EXCEPT ![c] = "ngFetch"]
         /\ fetchCalls' = [fetchCalls EXCEPT ![c] = Append(@, u)]
  /\ UNCHANGED << envVars, storeVars, inFlightRequests, promise, gotEntry,
                  entry, awaiting, result, hitCalls, missCalls, evicted >>

\* GET: key = generateKey(url); getValidEntry(key) calls store.get(key),
\* which reads the Map and promotes the key, then the call awaits.
CallGet(u, t, m) ==
  /\ timeToLiveAccepted(t)
  /\ m = "GET"
  /\ LET c == nCalls + 1
         key == generateKey(u)
     IN  /\ issue(c, u, t, m)
         /\ gotEntry' = [gotEntry EXCEPT ![c] = storeGetEntry(cache, key)]
         /\ accessOrder' = storeGetOrder(cache, accessOrder, key)
         /\ pc' = [pc EXCEPT ![c] = "storeGet"]
  /\ UNCHANGED << envVars, cache, inFlightRequests, promise, entry, awaiting,
                  result, obsVars >>

\* ------------------------------------------------ getValidEntry
\* Variant of GetValidEntryResume: the entry is returned without the
\* isExpired test.
GetValidEntryResumeUnchecked(c) ==
  /\ pc[c] = "storeGet"
  /\ entry' = [entry EXCEPT ![c] = gotEntry[c]]
  /\ pc' = [pc EXCEPT ![c] = "checked"]
  /\ UNCHANGED << envVars, storeVars, inFlightRequests, promise, nCalls, req,
                  gotEntry, awaiting, result, obsVars, histVars >>

\* Variant of GetValidEntryResume: the deletion of an expired entry is
\* reported to the eviction callback.
GetValidEntryResumeNotifying(c) ==
  /\ pc[c] = "storeGet"
  /\ IF gotEntry[c] # None /\ isExpired(gotEntry[c][1])
     THEN /\ cache' = mapDelete(cache, keyOf(c))
          /\ accessOrder' = storeDeleteOrder(accessOrder, keyOf(c))
          /\ pc' = [pc EXCEPT ![c] = "storeDelete"]
          /\ evicted' = [evicted EXCEPT ![c] =
                           Append(@, [key |-> keyOf(c), entry |-> gotEntry[c][1],
                                      present |-> DOMAIN cache \ {keyOf(c)}])]
          /\ UNCHANGED entry
     ELSE /\ entry' = [entry EXCEPT ![c] = gotEntry[c]]
          /\ pc' = [pc EXCEPT ![c] = "checked"]
          /\ UNCHANGED << storeVars, evicted >>
  /\ UNCHANGED << envVars, inFlightRequests, promise, nCalls, req, gotEntry,
                  awaiting, result, hitCalls, missCalls, fetchCalls, histVars >>

\* Resumes after `await store.get(key)`:
\*   if (!entry) return undefined;
\*   if (isExpired(entry)) { await store.delete(key); return undefined; }
\*   return entry;
GetValidEntryResume(c) ==
  /\ pc[c] = "storeGet"
  /\ IF gotEntry[c] # None /\ isExpired(gotEntry[c][1])
     THEN /\ cache' = mapDelete(cache, keyOf(c))
          /\ accessOrder' = storeDeleteOrder(accessOrder, keyOf(c))
          /\ pc' = [pc EXCEPT ![c] = "storeDelete"]
          /\ UNCHANGED entry
     ELSE /\ entry' = [entry EXCEPT ![c] = gotEntry[c]]
          /\ pc' = [pc EXCEPT ![c] = "checked"]
          /\ UNCHANGED storeVars
  /\ UNCHANGED << envVars, inFlightRequests, promise, nCalls, req, gotEntry,
                  awaiting, result, obsVars, histVars >>

\* Resumes after `await store.delete(key)`: return undefined.
GetValidEntryDeleted(c) ==
  /\ pc[c] = "storeDelete"
  /\ pc' = [pc EXCEPT ![c] = "checked"]
  /\ UNCHANGED << envVars, storeVars, inFlightRequests, promise, nCalls, req,
                  gotEntry, entry, awaiting, result, obsVars, histVars >>

\* ------------------------------------------------ cachedFetch: after lookup
\* Variant of CacheHit: the hit observer is not invoked.
CacheHitSilent(c) ==
  /\ pc[c] = "checked"
  /\ entry[c] # None
  /\ result' = [result EXCEPT ![c] = Resolved(entry[c][1].value)]
  /\ pc' = [pc EXCEPT ![c] = "done"]
  /\ UNCHANGED << envVars, storeVars, inFlightRequests, promise, nCalls, req,
                  gotEntry, entry, awaiting, obsVars, histVars >>

\* Variant of CacheHit: a hit restarts the lifetime of the entry with the
\* timeToLive of the call (sliding expiration).
CacheHitSliding(c) ==
  /\ pc[c] = "checked"
  /\ entry[c] # None
  /\ hitCalls' = [hitCalls EXCEPT ![c] = Append(@, keyOf(c))]
  /\ result' = [result EXCEPT ![c] = Resolved(entry[c][1].value)]
  /\ pc' = [pc EXCEPT ![c] = "done"]
  /\ cache' = IF keyOf(c) \in DOMAIN cache
              THEN mapSet(cache, keyOf(c),
                          createEntry(entry[c][1].value,
                                      timeToLiveOf(req[c].timeToLive)))
              ELSE cache
  /\ UNCHANGED << envVars, accessOrder, inFlightRequests, promise, nCalls, req,
                  gotEntry, entry, awaiting, missCalls, fetchCalls, evicted,
                  histVars >>

\* if (entry) { onHitCallback(key); return entry.value; }
CacheHit(c) ==
  /\ pc[c] = "checked"
  /\ entry[c] # None
  /\ hitCalls' = [hitCalls EXCEPT ![c] = Append(@, keyOf(c))]
  /\ result' = [result EXCEPT ![c] = Resolved(entry[c][1].value)]
  /\ pc' = [pc EXCEPT ![c] = "done"]
  /\ UNCHANGED << envVars, storeVars, inFlightRequests, promise, nCalls, req,
                  gotEntry, entry, awaiting, missCalls, fetchCalls, evicted,
                  histVars >>

\* Variant of JoinInFlight: the in-flight table is searched without the key.
JoinInFlightAnyKey(c) ==
  /\ pc[c] = "checked"
  /\ entry[c] = None
  /\ \E k \in Keys :
       /\ inFlightRequests[k] # 0
       /\ awaiting' = [awaiting EXCEPT ![c] = inFlightRequests[k]]
  /\ pc' = [pc EXCEPT ![c] = "wait"]
  /\ UNCHANGED << envVars, storeVars, inFlightRequests, promise, nCalls, req,
                  gotEntry, entry, result, obsVars, histVars >>

\* Variant of JoinInFlight: the miss observer is invoked before the in-flight
\* table is consulted.
JoinInFlightObserved(c) ==
  /\ pc[c] = "checked"
  /\ entry[c] = None
  /\ inFlightRequests[keyOf(c)] # 0
  /\ missCalls' = [missCalls EXCEPT ![c] = Append(@, keyOf(c))]
  /\ awaiting' = [awaiting EXCEPT ![c] = inFlightRequests[keyOf(c)]]
  /\ pc' = [pc EXCEPT ![c] = "wait"]
  /\ UNCHANGED << envVars, storeVars, inFlightRequests, promise, nCalls, req,
                  gotEntry, entry, result, hitCalls, fetchCalls, evicted,
                  histVars >>

\* if (inFlightPromise) return inFlightPromise;
JoinInFlight(c) ==
  /\ pc[c] = "checked"
  /\ entry[c] = None
  /\ inFlightRequests[keyOf(c)] # 0
  /\ awaiting' = [awaiting EXCEPT ![c] = inFlightRequests[keyOf(c)]]
  /\ pc' = [pc EXCEPT ![c] = "wait"]
  /\ UNCHANGED << envVars, storeVars, inFlightRequests, promise, nCalls, req,
                  gotEntry, entry, result, obsVars, histVars >>

\* Variant of Originate: the in-flight table is not consulted before a new
\* fetch is started.
OriginateUnchecked(c) ==
  /\ pc[c] = "checked"
  /\ entry[c] = None
  /\ missCalls' = [missCalls EXCEPT ![c] = Append(@, keyOf(c))]
  /\ fetchCalls' = [fetchCalls EXCEPT ![c] = Append(@, req[c].url)]
  /\ promise' = [promise EXCEPT ![c] = [st |-> "fetch", out |-> NoOutcome]]
  /\ inFlightRequests' = [inFlightRequests EXCEPT ![keyOf(c)] = c]
  /\ awaiting' = [awaiting EXCEPT ![c] = c]
  /\ pc' = [pc EXCEPT ![c] = "wait"]
  /\ UNCHANGED << envVars, storeVars, nCalls, req, gotEntry, entry, result,
                  hitCalls, evicted, histVars >>

\* Variant of Originate: the miss observer is not invoked.
OriginateUnobserved(c) ==
  /\ pc[c] = "checked"
  /\ entry[c] = None
  /\ inFlightRequests[keyOf(c)] = 0
  /\ fetchCalls' = [fetchCalls EXCEPT ![c] = Append(@, req[c].url)]
  /\ promise' = [promise EXCEPT ![c] = [st |-> "fetch", out |-> NoOutcome]]
  /\ inFlightRequests' = [inFlightRequests EXCEPT ![keyOf(c)] = c]
  /\ awaiting' = [awaiting EXCEPT ![c] = c]
  /\ pc' = [pc EXCEPT ![c] = "wait"]
  /\ UNCHANGED << envVars, storeVars, nCalls, req, gotEntry, entry, result,
                  hitCalls, missCalls, evicted, histVars >>

\* onMissCallback(key); the async block runs up to `await fetch(...)`;
\* inFlightRequests.set(key, fetchPromise); return fetchPromise.
Originate(c) ==
  /\ pc[c] = "checked"
  /\ entry[c] = None
  /\ inFlightRequests[keyOf(c)] = 0
  /\ missCalls' = [missCalls EXCEPT ![c] = Append(@, keyOf(c))]
  /\ fetchCalls' = [fetchCalls EXCEPT ![c] = Append(@, req[c].url)]
  /\ promise' = [promise EXCEPT ![c] = [st |-> "fetch", out |-> NoOutcome]]
  /\ inFlightRequests' = [inFlightRequests EXCEPT ![keyOf(c)] = c]
  /\ awaiting' = [awaiting EXCEPT ![c] = c]
  /\ pc' = [pc EXCEPT ![c] = "wait"]
  /\ UNCHANGED << envVars, storeVars, nCalls, req, gotEntry, entry, result,
                  hitCalls, evicted, histVars >>

\* ------------------------------------------------ the fetchPromise block
\* finally { inFlightRequests.delete(key) }
finallyCleanup(t) == [inFlightRequests EXCEPT ![keyOf(t)] = 0]

\* Variant of FetchFails: the failure is cached as an entry for the key.
FetchFailsCached(t, err) ==
  /\ promise[t].st = "fetch"
  /\ promise' = [promise EXCEPT ![t] = [st |-> "rejected", out |-> Rejected(err, t)]]
  /\ inFlightRequests' = [inFlightRequests EXCEPT ![keyOf(t)] = 0]
  /\ LET s == storeSet(cache, accessOrder, effectiveMaxSize, keyOf(t),
                       createEntry(Value(err, t), timeToLiveOf(req[t].timeToLive)))
     IN  /\ cache' = s.cache
         /\ accessOrder' = s.order
         /\ evicted' = [evicted EXCEPT ![t] = s.evicted]
  /\ UNCHANGED << envVars, nCalls, req, pc, gotEntry, entry, awaiting, result,
                  hitCalls, missCalls, fetchCalls, histVars >>

\* Variant of FetchFails: the cleanup is not in a finally block, so a
\* rejected fetch leaves its in-flight entry behind.
FetchFailsNoCleanup(t, err) ==
  /\ promise[t].st = "fetch"
  /\ promise' = [promise EXCEPT ![t] = [st |-> "rejected", out |-> Rejected(err, t)]]
  /\ UNCHANGED << envVars, storeVars, inFlightRequests, nCalls, req, pc,
                  gotEntry, entry, awaiting, result, obsVars, histVars >>

\* `await fetch(url, fetchInit)` rejects, or the response is not ok.
FetchFails(t, err) ==
  /\ promise[t].st = "fetch"
  /\ promise' = [promise EXCEPT ![t] = [st |-> "rejected", out |-> Rejected(err, t)]]
  /\ inFlightRequests' = finallyCleanup(t)
  /\ UNCHANGED << envVars, storeVars, nCalls, req, pc, gotEntry, entry,
                  awaiting, result, obsVars, histVars >>

\* The response is ok: parseJSON(response) is called and awaited.
FetchResponds(t) ==
  /\ promise[t].st = "fetch"
  /\ promise' = [promise EXCEPT ![t].st = "parse"]
  /\ UNCHANGED << envVars, storeVars, inFlightRequests, nCalls, req, pc,
                  gotEntry, entry, awaiting, result, obsVars, histVars >>

\* response.json() rejects: parseJSON throws its decode error.
ParseFails(t) ==
  /\ promise[t].st = "parse"
  /\ promise' = [promise EXCEPT ![t] = [st |-> "rejected",
                                        out |-> Rejected("DecodeError", t)]]
  /\ inFlightRequests' = finallyCleanup(t)
  /\ UNCHANGED << envVars, storeVars, nCalls, req, pc, gotEntry, entry,
                  awaiting, result, obsVars, histVars >>

\* Variant of ParseStores: the entry gets the timeToLive of the latest call
\* that returned this fetchPromise instead of the originator's.
ParseStoresLatestTtl(t, data) ==
  /\ promise[t].st = "parse"
  /\ shouldCache(data)
  /\ LET waiters == { c \in Calls : awaiting[c] = t }
         latest == CHOOSE c \in waiters : \A d \in waiters : d <= c
         s == storeSet(cache, accessOrder, effectiveMaxSize, keyOf(t),
                       createEntry(Value(data, t),
                                   timeToLiveOf(req[latest].timeToLive)))
     IN  /\ cache' = s.cache
         /\ accessOrder' = s.order
         /\ evicted' = [evicted EXCEPT ![t] = s.evicted]
  /\ promise' = [promise EXCEPT ![t] = [st |-> "set", out |-> Resolved(Value(data, t))]]
  /\ UNCHANGED << envVars, inFlightRequests, nCalls, req, pc, gotEntry, entry,
                  awaiting, result, hitCalls, missCalls, fetchCalls, histVars >>

\* Variant of ParseStores: the in-flight entry is removed before the entry
\* is written to the store.
ParseStoresAfterCleanup(t, data) ==
  /\ promise[t].st = "parse"
  /\ shouldCache(data)
  /\ inFlightRequests' = finallyCleanup(t)
  /\ LET s == storeSet(cache, accessOrder, effectiveMaxSize, keyOf(t),
                       createEntry(Value(data, t), timeToLiveOf(req[t].timeToLive)))
     IN  /\ cache' = s.cache
         /\ accessOrder' = s.order
         /\ evicted' = [evicted EXCEPT ![t] = s.evicted]
  /\ promise' = [promise EXCEPT ![t] = [st |-> "set", out |-> Resolved(Value(data, t))]]
  /\ UNCHANGED << envVars, nCalls, req, pc, gotEntry, entry,
                  awaiting, result, hitCalls, missCalls, fetchCalls, histVars >>

\* Decoded data that shouldCache accepts: store.set(key, createEntry(...))
\* is called (the Map is written, LRU eviction included) and awaited.
ParseStores(t, data) ==
  /\ promise[t].st = "parse"
  /\ shouldCache(data)
  /\ LET s == storeSet(cache, accessOrder, effectiveMaxSize, keyOf(t),
                       createEntry(Value(data, t), timeToLiveOf(req[t].timeToLive)))
     IN  /\ cache' = s.cache
         /\ accessOrder' = s.order
         /\ evicted' = [evicted EXCEPT ![t] = s.evicted]
  /\ promise' = [promise EXCEPT ![t] = [st |-> "set", out |-> Resolved(Value(data, t))]]
  /\ UNCHANGED << envVars, inFlightRequests, nCalls, req, pc, gotEntry, entry,
                  awaiting, result, hitCalls, missCalls, fetchCalls, histVars >>

\* Decoded data that shouldCache rejects: return data, finally runs.
ParseSkipsStore(t, data) ==
  /\ promise[t].st = "parse"
  /\ ~shouldCache(data)
  /\ promise' = [promise EXCEPT ![t] = [st |-> "resolved",
                                        out |-> Resolved(Value(data, t))]]
  /\ inFlightRequests' = finallyCleanup(t)
  /\ UNCHANGED << envVars, storeVars, nCalls, req, pc, gotEntry, entry,
                  awaiting, result, obsVars, histVars >>

\* Resumes after `await store.set(...)`: return data, finally runs.
StoreSetDone(t) ==
  /\ promise[t].st = "set"
  /\ promise' = [promise EXCEPT ![t].st = "resolved"]
  /\ inFlightRequests' = finallyCleanup(t)
  /\ UNCHANGED << envVars, storeVars, nCalls, req, pc, gotEntry, entry,
                  awaiting, result, obsVars, histVars >>

\* Variant of Settle: only the call that created the fetchPromise follows it.
SettleOriginatorOnly(c) ==
  /\ pc[c] = "wait"
  /\ awaiting[c] = c
  /\ promise[awaiting[c]].st \in settledStates
  /\ result' = [result EXCEPT ![c] = promise[awaiting[c]].out]
  /\ pc' = [pc EXCEPT ![c] = "done"]
  /\ UNCHANGED << envVars, storeVars, inFlightRequests, promise, nCalls, req,
                  gotEntry, entry, awaiting, obsVars, histVars >>

\* The promise a GET call returned follows the settled fetchPromise.
Settle(c) ==
  /\ pc[c] = "wait"
  /\ promise[awaiting[c]].st \in settledStates
  /\ result' = [result EXCEPT ![c] = promise[awaiting[c]].out]
  /\ pc' = [pc EXCEPT ![c] = "done"]
  /\ UNCHANGED << envVars, storeVars, inFlightRequests, promise, nCalls, req,
                  gotEntry, entry, awaiting, obsVars, histVars >>

\* ------------------------------------------------ non-GET calls
\* `await fetch(url, fetchInit)` rejects, or the response is not ok.
NonGetFetchFails(c, err) ==
  /\ pc[c] = "ngFetch"
  /\ result' = [result EXCEPT ![c] = Rejected(err, c)]
  /\ pc' = [pc EXCEPT ![c] = "done"]
  /\ UNCHANGED << envVars, storeVars, inFlightRequests, promise, nCalls, req,
                  gotEntry, entry, awaiting, obsVars, histVars >>

\* The response is ok: return parseJSON(response).
NonGetFetchResponds(c) ==
  /\ pc[c] = "ngFetch"
  /\ pc' = [pc EXCEPT ![c] = "ngParse"]
  /\ UNCHANGED << envVars, storeVars, inFlightRequests, promise, nCalls, req,
                  gotEntry, entry, awaiting, result, obsVars, histVars >>

\* Variant of NonGetParseDone: a non-GET call that ends removes the entry
\* stored for its path.
NonGetParseDoneInvalidating(c, out) ==
  /\ pc[c] = "ngParse"
  /\ result' = [result EXCEPT ![c] = out]
  /\ pc' = [pc EXCEPT ![c] = "done"]
  /\ cache' = mapDelete(cache, keyOf(c))
  /\ accessOrder' = storeDeleteOrder(accessOrder, keyOf(c))
  /\ UNCHANGED << envVars, inFlightRequests, promise, nCalls, req,
                  gotEntry, entry, awaiting, obsVars, histVars >>

\* parseJSON settles with the decoded body or its decode error.
NonGetParseDone(c, out) ==
  /\ pc[c] = "ngParse"
  /\ result' = [result EXCEPT ![c] = out]
  /\ pc' = [pc EXCEPT ![c] = "done"]
  /\ UNCHANGED << envVars, storeVars, inFlightRequests, promise, nCalls, req,
                  gotEntry, entry, awaiting, obsVars, histVars >>

\* ---------------------------------------------------------------- Next
\* A step of a call already issued, or of its fetchPromise.
Progress ==
  \E c \in Calls :
     \/ GetValidEntryResume(c)
     \/ GetValidEntryDeleted(c)
     \/ CacheHit(c)
     \/ JoinInFlight(c)
     \/ Originate(c)
     \/ Settle(c)
     \/ FetchResponds(c)
     \/ ParseFails(c)
     \/ StoreSetDone(c)
     \/ \E err \in NetErrors : FetchFails(c, err)
     \/ \E data \in Data : ParseStores(c, data) \/ ParseSkipsStore(c, data)

NonGetProgress ==
  \E c \in Calls :
     \/ NonGetFetchResponds(c)
     \/ \E err \in NetErrors : NonGetFetchFails(c, err)
     \/ \E data \in Data : NonGetParseDone(c, Resolved(Value(data, c)))
     \/ NonGetParseDone(c, Rejected("DecodeError", c))

\* Up to MaxCalls calls of any kind, issued at any time.
Next ==
  \/ Tick
  \/ /\ nCalls < MaxCalls
     /\ \E u \in Urls, t \in TimeToLiveOpts, m \in Methods :
          \/ CallInvalid(u, t, m)
          \/ CallNonGet(u, t, m)
          \/ CallGet(u, t, m)
  \/ Progress
  \/ NonGetProgress

Spec == Init /\ [][Next]_vars

\* MaxCalls GET calls issued at any time, then one more GET call issued once
\* all of them have settled; a store of capacity 1.
FollowUpTimeToLiveOpts == {None, Some(num(1))}

InitFollowUp == Init /\ effectiveMaxSize = 1

NextFollowUp ==
  \/ Tick
  \/ /\ nCalls < MaxCalls
     /\ \E u \in Urls, t \in FollowUpTimeToLiveOpts : CallGet(u, t, "GET")
  \/ /\ nCalls = MaxCalls
     /\ \A c \in 1..nCalls : pc[c] = "done"
     /\ \E u \in Urls, t \in FollowUpTimeToLiveOpts : CallGet(u, t, "GET")
  \/ Progress

SpecFollowUp == InitFollowUp /\ [][NextFollowUp]_vars

\* ------------------------------------------------ the memory store alone
\* Keys and entries a direct user of the store passes: one key more than the
\* largest capacity, and entries that differ in value and in expiry.
StoreKeys == { "/k" \o ToString(i) : i \in 1..(MaxStoreSize + 1) }

StoreEntries ==
  { [value |-> Value(d, 0), createdAt |-> 0, expiresAt |-> x] :
      d \in Data, x \in {0, DefaultTimeToLive} }

\* store.get(key)
StoreGet(key) ==
  /\ storeOp' = StoreOp("get", key, None, storeGetEntry(cache, key))
  /\ accessOrder' = storeGetOrder(cache, accessOrder, key)
  /\ evictCalls' = << >>
  /\ recency' = IF key \in DOMAIN cache THEN usedNow(recency, key) ELSE recency
  /\ UNCHANGED << now, effectiveMaxSize, construction, other,
                  cache, inFlightRequests, promise,
                  nCalls, req, pc, gotEntry, entry, awaiting, result, obsVars,
                  histVars >>

\* store.set(key, entry)
StoreSet(key, e) ==
  /\ LET s == storeSet(cache, accessOrder, effectiveMaxSize, key, e)
     IN  /\ cache' = s.cache
         /\ accessOrder' = s.order
         /\ evictCalls' = s.evicted
         /\ recency' = usedNow(residentOnly(recency, DOMAIN s.cache), key)
  /\ storeOp' = StoreOp("set", key, Some(e), None)
  /\ UNCHANGED << now, effectiveMaxSize, construction, other,
                  inFlightRequests, promise, nCalls,
                  req, pc, gotEntry, entry, awaiting, result, obsVars,
                  histVars >>

\* store.delete(key)
StoreDelete(key) ==
  /\ cache' = mapDelete(cache, key)
  /\ accessOrder' = storeDeleteOrder(accessOrder, key)
  /\ storeOp' = StoreOp("delete", key, None, None)
  /\ evictCalls' = << >>
  /\ recency' = without(recency, {key})
  /\ UNCHANGED << now, effectiveMaxSize, construction, other,
                  inFlightRequests, promise, nCalls,
                  req, pc, gotEntry, entry, awaiting, result, obsVars,
                  histVars >>

\* Variant of StoreClear: clearing the store also abandons the pending
\* fetchPromises and empties the in-flight table.
StoreClearCancelling ==
  /\ cache' = << >>
  /\ accessOrder' = << >>
  /\ storeOp' = StoreOp("clear", "", None, None)
  /\ evictCalls' = << >>
  /\ recency' = << >>
  /\ inFlightRequests' = [k \in Keys |-> 0]
  /\ promise' = [t \in Calls |->
                   IF promise[t].st \in {"fetch", "parse", "set"}
                   THEN [st |-> "rejected", out |-> Rejected("Cancelled", t)]
                   ELSE promise[t]]
  /\ UNCHANGED << now, effectiveMaxSize, construction, other,
                  nCalls, req, pc, gotEntry, entry,
                  awaiting, result, obsVars, histVars >>

\* store.clear()
StoreClear ==
  /\ cache' = << >>
  /\ accessOrder' = << >>
  /\ storeOp' = StoreOp("clear", "", None, None)
  /\ evictCalls' = << >>
  /\ recency' = << >>
  /\ UNCHANGED << now, effectiveMaxSize, construction, other,
                  inFlightRequests, promise, nCalls,
                  req, pc, gotEntry, entry, awaiting, result, obsVars,
                  histVars >>

\* store.has(key)
StoreHas(key) ==
  /\ storeOp' = StoreOp("has", key, None, Some(key \in DOMAIN cache))
  /\ evictCalls' = << >>
  /\ UNCHANGED recency
  /\ UNCHANGED << now, effectiveMaxSize, construction, other,
                  storeVars, inFlightRequests, promise,
                  nCalls, req, pc, gotEntry, entry, awaiting, result, obsVars,
                  histVars >>

\* Any sequence of operations on a store of capacity 1..MaxStoreSize.
NextStore ==
  \/ \E key \in StoreKeys : StoreGet(key)
  \/ \E key \in StoreKeys, e \in StoreEntries : StoreSet(key, e)
  \/ \E key \in StoreKeys : StoreDelete(key)
  \/ StoreClear
  \/ \E key \in StoreKeys : StoreHas(key)

SpecStore == Init /\ [][NextStore]_vars

\* Any sequence of operations on a store that has room for every key a
\* user passes, so that a key can be deleted from between two others.
InitStoreWide ==
  /\ effectiveMaxSize = MaxStoreSize + 1
  /\ construction =
       Construction("createMemoryStore",
                    Options(None, FALSE, Some(num(effectiveMaxSize))),
                    "returned")
  /\ Unused

SpecStoreWide == InitStoreWide /\ [][NextStore]_vars

\* Any sequence of operations on the store while time passes, so that
\* entries in it expire.
NextStoreAged ==
  \/ Tick
  \/ NextStore

SpecStoreAged == Init /\ [][NextStoreAged]_vars

\* ------------------------------------------------ a shared store
\* GET calls while the owner of the store deletes keys from it or clears it
\* at any time, a pending fetch included.
NextExternal ==
  \/ Tick
  \/ /\ nCalls < MaxCalls
     /\ \E u \in Urls, t \in FollowUpTimeToLiveOpts : CallGet(u, t, "GET")
  \/ Progress
  \/ \E u \in Urls : StoreDelete(generateKey(u))
  \/ StoreClear

SpecExternal == Init /\ [][NextExternal]_vars

\* GET calls for one URL on a store of capacity 1 whose owner also uses it
\* directly, at any time: get, has, set, delete and clear, with another key.
OwnerKey == generateKey(CHOOSE u \in Urls : u.path = "/b")

OwnerEntry == CHOOSE e \in StoreEntries : e.value.data = "d1" /\ e.expiresAt = 0

NextOwner ==
  \/ Tick
  \/ /\ nCalls < MaxCalls
     /\ \E u \in Urls :
          generateKey(u) # OwnerKey /\ CallGet(u, Some(num(1)), "GET")
  \/ Progress
  \/ StoreGet(OwnerKey)
  \/ StoreHas(OwnerKey)
  \/ StoreDelete(OwnerKey)
  \/ StoreSet(OwnerKey, OwnerEntry)
  \/ StoreClear

SpecOwner == InitFollowUp /\ [][NextOwner]_vars

\* ------------------------------------------------ fairness
\* The event loop runs every continuation that is ready, and every fetch,
\* decode and store operation that was started completes: a step of a call
\* or of a fetchPromise that stays possible is eventually taken.
\* Calls of every kind on a store of capacity 1, with an invalid and a
\* short timeToLive.
FairTimeToLiveOpts == {Some(num(0)), Some(num(1))}

NextFair ==
  \/ Tick
  \/ /\ nCalls < MaxCalls
     /\ \E u \in Urls, t \in FairTimeToLiveOpts, m \in Methods :
          \/ CallInvalid(u, t, m)
          \/ CallNonGet(u, t, m)
          \/ CallGet(u, t, m)
  \/ Progress
  \/ NonGetProgress

SpecFair ==
  /\ InitFollowUp
  /\ [][NextFair]_vars
  /\ WF_vars(Progress)
  /\ WF_vars(NonGetProgress)

\* ------------------------------------------------ the factories
\* Values passed as options.timeToLive and as memoryStoreOptions.maxSize.
OptionValues ==
  { num(n) : n \in -1..MaxStoreSize } \cup
  { half(0), half(1), PosInfinity, NegInfinity, NaN, str(1) }

\* const cachedFetch = createCachedFetch(options)
CreateCachedFetch ==
  /\ construction.fn = "createCachedFetch"
  /\ construction.outcome = "pending"
  /\ IF createCachedFetchThrows(construction.options)
     THEN /\ construction' = [construction EXCEPT !.outcome = "threw"]
          /\ UNCHANGED effectiveMaxSize
     ELSE /\ construction' = [construction EXCEPT !.outcome = "returned"]
          /\ effectiveMaxSize' =
               IF construction.options.store THEN effectiveMaxSize
               ELSE effectiveMaxSizeOf(construction.options)
  /\ UNCHANGED << now, storeOp, evictCalls, recency, other, storeVars,
                  inFlightRequests, promise, nCalls, req, pc, gotEntry, entry,
                  awaiting, result, obsVars, histVars >>

\* const store = createMemoryStore(options)
CreateMemoryStore ==
  /\ construction.fn = "createMemoryStore"
  /\ construction.outcome = "pending"
  /\ IF createMemoryStoreThrows(construction.options)
     THEN /\ construction' = [construction EXCEPT !.outcome = "threw"]
          /\ UNCHANGED effectiveMaxSize
     ELSE /\ construction' = [construction EXCEPT !.outcome = "returned"]
          /\ effectiveMaxSize' = effectiveMaxSizeOf(construction.options)
  /\ UNCHANGED << now, storeOp, evictCalls, recency, other, storeVars,
                  inFlightRequests, promise, nCalls, req, pc, gotEntry, entry,
                  awaiting, result, obsVars, histVars >>

\* A factory is about to be called with any of the options; no store has a
\* capacity yet.
InitConstruct ==
  /\ effectiveMaxSize = 0
  /\ \/ \E t \in OptionValues, s \in BOOLEAN,
           m \in {None} \cup { Some(v) : v \in OptionValues } :
          construction =
            Construction("createCachedFetch", Options(t, s, m), "pending")
     \/ \E m \in {None} \cup { Some(v) : v \in OptionValues } :
          construction =
            Construction("createMemoryStore",
                         Options(num(DefaultTimeToLive), FALSE, m), "pending")
  /\ Unused

NextConstruct == CreateCachedFetch \/ CreateMemoryStore

SpecConstruct == InitConstruct /\ [][NextConstruct]_vars

\* ------------------------------------------------ URLs and keys
\* GET calls with the default timeToLive for URLs of several origins and
\* queries, on a store of capacity MaxStoreSize.
NextKeys ==
  \/ Tick
  \/ /\ nCalls < MaxCalls
     /\ \E u \in KeyUrls : CallGet(u, None, "GET")
  \/ Progress

InitKeys == Init /\ effectiveMaxSize = MaxStoreSize

SpecKeys == InitKeys /\ [][NextKeys]_vars

\* ------------------------------------------------ two orchestrators
\* Two createCachedFetch(options) calls with the same options and no store
\* supplied: each has its own store and its own inFlightRequests. The
\* variables cache, accessOrder and inFlightRequests are those of the
\* orchestrator whose calls are running, `other` keeps those of the second
\* one together with the calls made through it.
ownCalls == (1..nCalls) \ other.calls

\* Variant of Switch: the two orchestrators use one store.
SwitchSharingStore ==
  /\ inFlightRequests' = other.inFlightRequests
  /\ other' = [cache |-> << >>, accessOrder |-> << >>,
               inFlightRequests |-> inFlightRequests, calls |-> ownCalls]
  /\ UNCHANGED << now, effectiveMaxSize, storeOp, evictCalls, recency,
                  construction, storeVars, promise, nCalls, req, pc, gotEntry,
                  entry, awaiting, result, obsVars, histVars >>

\* The steps that follow are those of calls made through the second
\* orchestrator.
Switch ==
  /\ cache' = other.cache
  /\ accessOrder' = other.accessOrder
  /\ inFlightRequests' = other.inFlightRequests
  /\ other' = [cache |-> cache, accessOrder |-> accessOrder,
               inFlightRequests |-> inFlightRequests, calls |-> ownCalls]
  /\ UNCHANGED << now, effectiveMaxSize, storeOp, evictCalls, recency,
                  construction, promise, nCalls, req, pc, gotEntry, entry,
                  awaiting, result, obsVars, histVars >>

\* A step of a call, or of a fetchPromise, of the running orchestrator.
OwnProgress ==
  /\ Progress
  /\ \A c \in Calls :
       (pc'[c] # pc[c] \/ promise'[c] # promise[c]) => c \in ownCalls

\* GET calls with the default timeToLive through either orchestrator, each
\* with a store of capacity 1.
NextTwo ==
  \/ Tick
  \/ /\ nCalls < MaxCalls
     /\ \E u \in Urls : CallGet(u, None, "GET")
  \/ OwnProgress
  \/ Switch

SpecTwo == InitFollowUp /\ [][NextTwo]_vars

\* ------------------------------------------------ isExpired alone
\* Entries created at time 0 or 1 that expire at any time from their creation
\* to one tick after MaxTime.
ExpiryEntries ==
  { [value |-> Value(d, 0), createdAt |-> a, expiresAt |-> x] :
      d \in Data, a \in 0..1, x \in 1..(MaxTime + 1) }

\* isExpired(entry) is evaluated; the time and the answer are kept.
IsExpired(e) ==
  /\ storeOp' = StoreOp("isExpired", "", Some(e),
                        Some([at |-> now, expired |-> isExpired(e)]))
  /\ UNCHANGED << now, effectiveMaxSize, construction, other, evictCalls,
                  recency, storeVars, inFlightRequests, promise, nCalls, req,
                  pc, gotEntry, entry, awaiting, result, obsVars, histVars >>

NextExpiry ==
  \/ Tick
  \/ \E e \in ExpiryEntries : IsExpired(e)

SpecExpiry == InitFollowUp /\ [][NextExpiry]_vars

\* ------------------------------------------------ the default capacity
\* createMemoryStore() without maxSize, then DefaultMaxSize + 1 keys are set
\* one after the other; once the store holds DefaultMaxSize keys and none
\* has been evicted yet, the first key may be read.
storeKey(i) == "/k" \o ToString(i)

FillStore ==
  /\ construction.outcome = "returned"
  /\ \E i \in 1..(DefaultMaxSize + 1) :
       /\ storeKey(i) \notin DOMAIN cache
       /\ storeKey(DefaultMaxSize + 1) \notin DOMAIN cache
       /\ IF i = 1 THEN cache = << >> ELSE storeKey(i - 1) \in DOMAIN cache
       /\ StoreSet(storeKey(i), createEntry(Value("d1", 0), DefaultTimeToLive))

ReadFirstKey ==
  /\ construction.outcome = "returned"
  /\ Len(accessOrder) = DefaultMaxSize
  /\ accessOrder[1] = storeKey(1)
  /\ StoreGet(storeKey(1))

InitDefaultStore ==
  /\ effectiveMaxSize = 0
  /\ construction =
       Construction("createMemoryStore",
                    Options(num(DefaultTimeToLive), FALSE, None), "pending")
  /\ Unused

NextDefaultStore == CreateMemoryStore \/ FillStore \/ ReadFirstKey

SpecDefaultStore == InitDefaultStore /\ [][NextDefaultStore]_vars

\* ------------------------------------------------ invalid overrides
\* Calls of every kind whose init.timeToLive is absent, valid, zero, negative,
\* infinite or NaN, on a store of capacity 1.
ValidationTimeToLiveOpts ==
  {None, Some(num(1)), Some(num(0)), Some(num(-1)), Some(PosInfinity),
   Some(NegInfinity), Some(NaN)}

NextValidation ==
  \/ Tick
  \/ /\ nCalls < MaxCalls
     /\ \E u \in Urls, t \in ValidationTimeToLiveOpts, m \in Methods :
          \/ CallInvalid(u, t, m)
          \/ CallNonGet(u, t, m)
          \/ CallGet(u, t, m)
  \/ Progress
  \/ NonGetProgress

SpecValidation == InitFollowUp /\ [][NextValidation]_vars

\* ------------------------------------------------ a stored entry expires
\* One GET call runs to its end, then MaxCalls more GET calls are issued at
\* any time; every entry lives one tick.
NextSeeded ==
  \/ Tick
  \/ /\ nCalls = 0 \/ (nCalls \in 1..MaxCalls /\ pc[1] = "done")
     /\ \E u \in Urls : CallGet(u, Some(num(1)), "GET")
  \/ Progress

SpecSeeded == InitFollowUp /\ [][NextSeeded]_vars

\* ------------------------------------------------ failures after the response
\* What shouldCache throws and what store.set rejects with.
StoreFailures == {"PredicateError", "StoreError"}

\* Variant of ParseShouldCacheThrows: the predicate is evaluated outside the
\* try block, so its failure skips the cleanup.
ParseShouldCacheThrowsNoCleanup(t) ==
  /\ promise[t].st = "parse"
  /\ promise' = [promise EXCEPT ![t] = [st |-> "rejected",
                                        out |-> Rejected("PredicateError", t)]]
  /\ UNCHANGED << envVars, storeVars, inFlightRequests, nCalls, req, pc,
                  gotEntry, entry, awaiting, result, obsVars, histVars >>

\* The body is decoded and shouldCache(data) throws: the finally block runs
\* and the fetchPromise rejects with what the predicate threw.
ParseShouldCacheThrows(t) ==
  /\ promise[t].st = "parse"
  /\ promise' = [promise EXCEPT ![t] = [st |-> "rejected",
                                        out |-> Rejected("PredicateError", t)]]
  /\ inFlightRequests' = finallyCleanup(t)
  /\ UNCHANGED << envVars, storeVars, nCalls, req, pc, gotEntry, entry,
                  awaiting, result, obsVars, histVars >>

\* Decoded data that shouldCache accepts, and a store (options.store) whose
\* set is going to reject without writing: store.set(...) is called and
\* awaited.
ParseStoreSetFailing(t, data) ==
  /\ promise[t].st = "parse"
  /\ shouldCache(data)
  /\ promise' = [promise EXCEPT ![t] = [st |-> "setFailing", out |-> NoOutcome]]
  /\ UNCHANGED << envVars, storeVars, inFlightRequests, nCalls, req, pc,
                  gotEntry, entry, awaiting, result, obsVars, histVars >>

\* `await store.set(...)` rejects: the finally block runs and the
\* fetchPromise rejects with the store's error.
StoreSetRejects(t) ==
  /\ promise[t].st = "setFailing"
  /\ promise' = [promise EXCEPT ![t] = [st |-> "rejected",
                                        out |-> Rejected("StoreError", t)]]
  /\ inFlightRequests' = finallyCleanup(t)
  /\ UNCHANGED << envVars, storeVars, nCalls, req, pc, gotEntry, entry,
                  awaiting, result, obsVars, histVars >>

\* MaxCalls GET calls at any time and one more once they have settled, with
\* a predicate that can throw and a store whose set can reject.
NextFailing ==
  \/ Tick
  \/ /\ nCalls < MaxCalls
     /\ \E u \in Urls : CallGet(u, Some(num(1)), "GET")
  \/ /\ nCalls = MaxCalls
     /\ \A c \in 1..nCalls : pc[c] = "done"
     /\ \E u \in Urls : CallGet(u, Some(num(1)), "GET")
  \/ Progress
  \/ \E t \in Calls :
       \/ ParseShouldCacheThrows(t)
       \/ \E data \in Data : ParseStoreSetFailing(t, data)
       \/ StoreSetRejects(t)

SpecFailing == InitFollowUp /\ [][NextFailing]_vars

\* ------------------------------------------------ a producer that throws
\* fetch(url, fetchInit) throws before it returns a promise (fetch is
\* looked up as a global at the call: it can be absent or replaced). The
\* async block has not reached its first await, so its catch-all runs at
\* once: `finally { inFlightRequests.delete(key) }` finds no entry for the
\* key, the block returns a rejected fetchPromise, and then
\* `inFlightRequests.set(key, fetchPromise)` registers that promise.
OriginateFetchThrows(c, err) ==
  /\ pc[c] = "checked"
  /\ entry[c] = None
  /\ inFlightRequests[keyOf(c)] = 0
  /\ missCalls' = [missCalls EXCEPT ![c] = Append(@, keyOf(c))]
  /\ fetchCalls' = [fetchCalls EXCEPT ![c] = Append(@, req[c].url)]
  /\ promise' = [promise EXCEPT ![c] = [st |-> "rejected", out |-> Rejected(err, c)]]
  /\ inFlightRequests' = [finallyCleanup(c) EXCEPT ![keyOf(c)] = c]
  /\ awaiting' = [awaiting EXCEPT ![c] = c]
  /\ pc' = [pc EXCEPT ![c] = "wait"]
  /\ UNCHANGED << envVars, storeVars, nCalls, req, gotEntry, entry, result,
                  hitCalls, evicted, histVars >>

\* GET calls issued at any time against a producer that answers, rejects or
\* throws.
NextThrows ==
  \/ Tick
  \/ /\ nCalls < MaxCalls
     /\ \E u \in Urls, t \in FollowUpTimeToLiveOpts : CallGet(u, t, "GET")
  \/ Progress
  \/ \E c \in Calls, err \in NetErrors : OriginateFetchThrows(c, err)

SpecThrows == InitFollowUp /\ [][NextThrows]_vars

\* ---------------------------------------------------------------- typing
TypeOK ==
  /\ now \in 0..MaxTime
  /\ nCalls \in 0..(MaxCalls + 1)
  /\ DOMAIN cache \subseteq
       Keys \cup StoreKeys \cup { storeKey(i) : i \in 1..(DefaultMaxSize + 1) }
  /\ \A c \in Calls : pc[c] \in {"idle", "storeGet", "storeDelete", "checked",
                                 "wait", "done", "ngFetch", "ngParse"}

\* ================================================================ claims
isGet(c) ==
  c <= nCalls /\ req[c].method = "GET" /\ timeToLiveAccepted(req[c].timeToLive)

liveStates == {"fetch", "parse", "set"}

\* The fetchPromise computations for key k that have started and not settled.
outstanding(k) == { t \in Calls : promise[t].st \in liveStates /\ keyOf(t) = k }

\* c1 and c2 are GET calls for one key, both issued while the store had no
\* entry for it (store.get returned undefined), c2 before c1 had settled.
sameBurst(c1, c2) ==
  /\ c1 < c2 /\ isGet(c1) /\ isGet(c2)
  /\ keyOf(c1) = keyOf(c2)
  /\ gotEntry[c1] = None /\ gotEntry[c2] = None
  /\ c1 \in concurrent[c2]

\* C1: GET calls for one key that are issued while the key has no cache entry
\* and before the first of them settles are served by a single producer
\* invocation and settle with the same outcome.
C1_BurstSharesOneFetch ==
  \A c1, c2 \in Calls :
    sameBurst(c1, c2) =>
      /\ Len(fetchCalls[c1]) + Len(fetchCalls[c2]) <= 1
      /\ (awaiting[c1] # 0 /\ awaiting[c2] # 0) => awaiting[c1] = awaiting[c2]
      /\ (pc[c1] = "done" /\ pc[c2] = "done") => result[c1] = result[c2]

\* C2: per key at most one fetchPromise computation is outstanding, and a key
\* is absent from the in-flight table only when none is.
C2_AtMostOneOutstanding ==
  \A k \in Keys :
    /\ Cardinality(outstanding(k)) <= 1
    /\ inFlightRequests[k] = 0 => outstanding(k) = {}

\* A caller is about to consult the in-flight table while a computation for
\* its key is running.
C2_Witness ==
  \E c \in Calls :
    /\ pc[c] = "checked" /\ entry[c] = None
    /\ outstanding(keyOf(c)) # {}

writerOf(e) == e.value.resp
lifetime(e) == e.expiresAt - e.createdAt

\* C4: when the computation for a key fails (transport error, HTTP status or
\* decode error) the originator and every joiner reject with that one error,
\* none of them invokes the producer again, and the computation writes no
\* entry to the store.
C4_FailureSharedNoRetryNoStore ==
  \A t \in Calls :
    promise[t].st = "rejected" =>
      /\ promise[t].out \in { Rejected(err, t) : err \in NetErrors \cup {"DecodeError"} }
      /\ \A c \in Calls :
           awaiting[c] = t =>
             /\ pc[c] = "done" => result[c] = promise[t].out
             /\ fetchCalls[c] = IF c = t THEN << req[t].url >> ELSE << >>
      /\ \A k \in DOMAIN cache : writerOf(cache[k]) # t

\* The originator and a joiner have both rejected with the decode error of
\* the one computation.
C4_Witness ==
  \E t, c \in Calls :
    /\ c # t /\ awaiting[c] = t /\ awaiting[t] = t
    /\ pc[c] = "done" /\ pc[t] = "done"
    /\ result[c] = Rejected("DecodeError", t)

\* c is a GET call issued when every earlier call had settled, and the most
\* recent earlier GET call for its key was served by a fetch that failed.
afterFailure(c) ==
  /\ isGet(c) /\ concurrent[c] = {}
  /\ LET earlier == { d \in 1..(c - 1) : isGet(d) /\ keyOf(d) = keyOf(c) }
     IN  /\ earlier # {}
         /\ LET prev == CHOOSE d \in earlier : \A x \in earlier : x <= d
            IN  awaiting[prev] # 0 /\ promise[awaiting[prev]].st = "rejected"

\* C5: after a fetch for a key has failed, the next GET call for the key is a
\* clean miss: it finds no cache entry and no in-flight entry, invokes the
\* miss observer and invokes the producer anew.
C5_CleanMissAfterFailure ==
  \A c \in Calls :
    afterFailure(c) =>
      /\ gotEntry[c] = None
      /\ hitCalls[c] = << >>
      /\ pc[c] \in {"wait", "done"} =>
           /\ awaiting[c] = c
           /\ missCalls[c] = << keyOf(c) >>
           /\ fetchCalls[c] = << req[c].url >>

\* C6 as stated: a call for the key issued before the entry's timeToLive has
\* elapsed is served from the cache without a producer invocation, and a call
\* issued after it has elapsed is served by a producer invocation.
C6_ServedByIssueTime ==
  \A c \in Calls :
    (isGet(c) /\ pc[c] = "done") =>
      /\ issuedWhile[c] = "before" =>
           /\ fetchCalls[c] = << >> /\ awaiting[c] = 0
           /\ result[c] = Resolved(gotEntry[c][1].value)
      /\ issuedWhile[c] = "after" =>
           /\ hitCalls[c] = << >> /\ awaiting[c] # 0

\* The expiry test of call c runs in this step.
expiryTested(c) ==
  pc[c] = "storeGet" /\ pc'[c] # "storeGet" /\ gotEntry[c] # None

deadlineOf(e) == e.createdAt + timeToLiveOf(req[writerOf(e)].timeToLive)

\* C6, amended: a value fetched with timeToLive t and stored at time T is
\* served from the cache, with no producer invocation, to every call whose
\* store lookup returned it and whose expiry test runs no later than T + t; a
\* call whose expiry test runs after T + t is not served from the cache: it
\* proceeds as a miss and is served by the producer invocation it joins or
\* originates.
C6_ServedByCheckTime ==
  /\ [][ \A c \in Calls :
           expiryTested(c) =>
             IF now <= deadlineOf(gotEntry[c][1])
             THEN entry'[c] = gotEntry[c] /\ pc'[c] = "checked"
             ELSE entry'[c] = None /\ pc'[c] = "storeDelete" ]_vars
  /\ [] \A c \in Calls :
          (isGet(c) /\ gotEntry[c] # None /\ pc[c] = "done") =>
            IF entry[c] # None
            THEN /\ fetchCalls[c] = << >> /\ awaiting[c] = 0
                 /\ result[c] = Resolved(gotEntry[c][1].value)
            ELSE /\ hitCalls[c] = << >>
                 /\ awaiting[c] # 0 /\ Len(missCalls[c]) = Len(fetchCalls[c])
                 /\ result[c] = promise[awaiting[c]].out

\* A call issued before the deadline of the entry it looked up tested it
\* after the deadline and was served by a fetch of its own.
C6_Witness ==
  \E c \in Calls :
    /\ isGet(c) /\ pc[c] = "done" /\ issuedWhile[c] = "before"
    /\ gotEntry[c] # None /\ now > deadlineOf(gotEntry[c][1])
    /\ entry[c] = None /\ awaiting[c] = c /\ result[c].kind = "value"

\* C7: a GET call never returns the value of an entry that is expired when it
\* is tested: finding the looked-up entry expired, the call deletes the key
\* from the store and proceeds as a miss (it joins or originates).
C7_ExpiredNeverServed ==
  /\ [][ \A c \in Calls :
           (expiryTested(c) /\ now > gotEntry[c][1].expiresAt) =>
             /\ pc'[c] = "storeDelete"
             /\ keyOf(c) \notin DOMAIN cache'
             /\ Len(accessOrder') = Cardinality(DOMAIN cache') ]_vars
  /\ [][ \A c \in Calls :
           (entry[c] = None /\ entry'[c] # None) =>
             entry'[c] = gotEntry[c] /\ now <= gotEntry[c][1].expiresAt ]_vars
  /\ [] \A c \in Calls :
          (isGet(c) /\ gotEntry[c] # None /\ entry[c] = None) =>
            /\ hitCalls[c] = << >>
            /\ pc[c] \in {"storeGet", "storeDelete", "checked", "wait", "done"}
            /\ pc[c] \in {"wait", "done"} => awaiting[c] # 0
            /\ pc[c] = "done" => result[c] = promise[awaiting[c]].out

\* A call found its entry expired, deleted the key and is now waiting on a
\* computation that another call started.
C7_Witness ==
  \E c \in Calls :
    /\ isGet(c) /\ gotEntry[c] # None /\ entry[c] = None
    /\ pc[c] = "wait" /\ awaiting[c] # c
    /\ keyOf(c) \notin DOMAIN cache

\* C8: a GET call whose lookup returned a non-expired entry returns that
\* entry's value, invokes the hit observer once with the key, invokes neither
\* the producer nor the miss observer, and adds nothing to the in-flight table.
C8_HitIsPure ==
  \A c \in Calls :
    (isGet(c) /\ entry[c] # None) =>
      /\ missCalls[c] = << >> /\ fetchCalls[c] = << >>
      /\ awaiting[c] = 0 /\ promise[c].st = "none"
      /\ \A k \in Keys : inFlightRequests[k] # c
      /\ pc[c] \in {"checked", "done"}
      /\ pc[c] = "checked" => hitCalls[c] = << >>
      /\ pc[c] = "done" =>
           /\ hitCalls[c] = << keyOf(c) >>
           /\ result[c] = Resolved(entry[c][1].value)

\* A call has returned a cached value that an earlier call fetched.
C8_Witness ==
  \E c \in Calls :
    /\ isGet(c) /\ entry[c] # None /\ pc[c] = "done"
    /\ result[c].kind = "value" /\ result[c].resp # c

\* C9: when concurrent calls for a key carry different timeToLive overrides,
\* the lifetime of the stored entry is the timeToLive of the call that
\* originated the fetch; the overrides of the joiners have no effect.
C9_OriginatorTtlWins ==
  \A k \in DOMAIN cache :
    LET t == writerOf(cache[k])
    IN  /\ isGet(t) /\ keyOf(t) = k /\ awaiting[t] = t
        /\ \A c \in Calls :
             (c # t /\ awaiting[c] = t) =>
               lifetime(cache[k]) = timeToLiveOf(req[t].timeToLive)

\* An entry is stored whose originator and joiner carried different overrides.
C9_Witness ==
  \E k \in DOMAIN cache :
    \E c \in Calls :
      LET t == writerOf(cache[k])
      IN  /\ c # t /\ awaiting[c] = t
          /\ req[t].timeToLive # None /\ req[c].timeToLive # None
          /\ req[t].timeToLive # req[c].timeToLive

\* C10: the entry an originating call stores has expiresAt - createdAt equal
\* to the call's override when it gave one and to the orchestrator's default
\* otherwise; an override never changes the default that later calls use.
C10_LifetimeIsOverrideOrDefault ==
  \A k \in DOMAIN cache :
    LET e == cache[k]
        given == req[writerOf(e)].timeToLive
    IN  /\ e.createdAt <= now
        /\ given # None => lifetime(e) = given[1].n
        /\ given = None => lifetime(e) = DefaultTimeToLive

\* An entry stored under the default after an earlier call used an override.
C10_Witness ==
  \E k1, k2 \in DOMAIN cache :
    LET t1 == writerOf(cache[k1])
        t2 == writerOf(cache[k2])
    IN  /\ t1 < t2
        /\ req[t1].timeToLive # None /\ req[t2].timeToLive = None
        /\ lifetime(cache[k1]) # lifetime(cache[k2])

\* C11: distinct keys share neither a cache entry nor an in-flight
\* computation: the entry a call looks up and the computation it follows were
\* made for its own key, and two calls for different uncached keys are served
\* by two different producer invocations.
C11_KeysAreIndependent ==
  /\ \A k \in DOMAIN cache : keyOf(writerOf(cache[k])) = k
  /\ \A k \in Keys : inFlightRequests[k] # 0 => keyOf(inFlightRequests[k]) = k
  /\ \A c \in Calls :
       isGet(c) =>
         /\ gotEntry[c] # None => keyOf(writerOf(gotEntry[c][1])) = keyOf(c)
         /\ awaiting[c] # 0 => keyOf(awaiting[c]) = keyOf(c)
         /\ (pc[c] = "done" /\ result[c].kind = "value") =>
              keyOf(result[c].resp) = keyOf(c)
  /\ \A c1, c2 \in Calls :
       ( /\ isGet(c1) /\ isGet(c2) /\ keyOf(c1) # keyOf(c2)
         /\ entry[c1] = None /\ entry[c2] = None
         /\ pc[c1] \in {"wait", "done"} /\ pc[c2] \in {"wait", "done"} ) =>
            /\ awaiting[c1] # awaiting[c2]
            /\ Len(fetchCalls[awaiting[c1]]) = 1
            /\ Len(fetchCalls[awaiting[c2]]) = 1

\* Two overlapping calls for different uncached keys have both resolved, each
\* with the value of its own fetch.
C11_Witness ==
  \E c1, c2 \in Calls :
    /\ isGet(c1) /\ isGet(c2) /\ keyOf(c1) # keyOf(c2)
    /\ c1 \in concurrent[c2]
    /\ gotEntry[c1] = None /\ gotEntry[c2] = None
    /\ pc[c1] = "done" /\ pc[c2] = "done"
    /\ result[c1].kind = "value" /\ result[c1].resp = c1
    /\ result[c2].kind = "value" /\ result[c2].resp = c2

\* The computation t resolved with a value that shouldCache rejected.
rejectedByPredicate(t) ==
  promise[t].st = "resolved" /\ ~shouldCache(promise[t].out.what)

\* c is a GET call issued when every earlier call had settled, and the most
\* recent earlier GET call for its key was served a value shouldCache rejected.
afterRejectedValue(c) ==
  /\ isGet(c) /\ concurrent[c] = {}
  /\ LET earlier == { d \in 1..(c - 1) : isGet(d) /\ keyOf(d) = keyOf(c) }
     IN  /\ earlier # {}
         /\ LET prev == CHOOSE d \in earlier : \A x \in earlier : x <= d
            IN  awaiting[prev] # 0 /\ rejectedByPredicate(awaiting[prev])

\* C12: a decoded value that shouldCache rejects is returned to the originator
\* and to every joiner of the one producer invocation, no entry is stored for
\* it, and the call that follows for the same key invokes the producer anew.
C12_RejectedValueReturnedNotStored ==
  /\ \A t \in Calls :
       rejectedByPredicate(t) =>
         /\ \A c \in Calls :
              awaiting[c] = t =>
                /\ pc[c] = "done" => result[c] = promise[t].out
                /\ fetchCalls[c] = IF c = t THEN << req[t].url >> ELSE << >>
         /\ \A k \in DOMAIN cache : writerOf(cache[k]) # t
  /\ \A c \in Calls :
       afterRejectedValue(c) =>
         /\ hitCalls[c] = << >>
         /\ pc[c] \in {"wait", "done"} =>
              awaiting[c] = c /\ fetchCalls[c] = << req[c].url >>

\* c is a call with a valid timeToLive and a method other than GET.
isNonGet(c) ==
  c <= nCalls /\ req[c].method # "GET" /\ timeToLiveAccepted(req[c].timeToLive)

C14_StoreNeverExceedsMaxSize ==
  Cardinality(DOMAIN cache) <= effectiveMaxSize

\* A set into a full store has just evicted, and the store is full again.
C14_Witness ==
  /\ storeOp.op = "set" /\ evictCalls # << >>
  /\ Cardinality(DOMAIN cache) = effectiveMaxSize

\* This step is a set of key, absent so far, into a store that is full.
setsNewKeyIntoFullStore(key) ==
  /\ storeOp'.op = "set" /\ storeOp'.key = key
  /\ key \notin DOMAIN cache
  /\ Cardinality(DOMAIN cache) = effectiveMaxSize

\* C15: a set of an absent key into a store that holds maxSize keys evicts
\* exactly one key, the one whose last use (get of a present key, or set) is
\* the oldest, and leaves every other resident key and its entry in place;
\* with maxSize = 1 the sole resident is evicted.
C15_EvictsExactlyTheLeastRecentlyUsed ==
  [][ \A key \in StoreKeys :
        setsNewKeyIntoFullStore(key) =>
          LET victim == Head(recency)
          IN  /\ victim \in DOMAIN cache
              /\ DOMAIN cache' = (DOMAIN cache \ {victim}) \cup {key}
              /\ \A k \in DOMAIN cache \ {victim} : cache'[k] = cache[k]
              /\ Len(evictCalls') = 1 /\ evictCalls'[1].key = victim
              /\ effectiveMaxSize = 1 => DOMAIN cache' = {key} ]_vars

\* A store of capacity above 1 has evicted one key on a set of a new key and
\* is full again, an earlier resident still in place.
C15_Witness ==
  /\ storeOp.op = "set" /\ Len(evictCalls) = 1
  /\ effectiveMaxSize > 1
  /\ Cardinality(DOMAIN cache) = effectiveMaxSize
  /\ evictCalls[1].key \notin DOMAIN cache
  /\ \E k \in DOMAIN cache : k # storeOp.key

\* Position of key in a sequence without repetition (0 when absent).
positionIn(order, key) ==
  IF \E i \in 1..Len(order) : order[i] = key
  THEN CHOOSE i \in 1..Len(order) : order[i] = key
  ELSE 0

\* C16: onEvictCallback is invoked exactly once for each key a set evicts,
\* with that key and the entry it held, in the order of eviction, and while
\* the key being inserted is not yet in the store.
C16_EvictCallbackOncePerEviction ==
  [][ storeOp'.op = "set" =>
        LET gone == DOMAIN cache \ DOMAIN cache'
            n == Len(evictCalls')
        IN  /\ n = Cardinality(gone)
            /\ { evictCalls'[i].key : i \in 1..n } = gone
            /\ \A i \in 1..n :
                 /\ evictCalls'[i].entry = cache[evictCalls'[i].key]
                 /\ storeOp'.key \notin evictCalls'[i].present
                 /\ evictCalls'[i].key \notin evictCalls'[i].present
            /\ \A i, j \in 1..n :
                 i < j => positionIn(recency, evictCalls'[i].key)
                            < positionIn(recency, evictCalls'[j].key) ]_vars

\* The callback of a set ran while another resident was in the store and the
\* new key was not; the new key is in the store now.
C16_Witness ==
  /\ storeOp.op = "set" /\ Len(evictCalls) = 1
  /\ storeOp.key \in DOMAIN cache
  /\ evictCalls[1].present # {}
  /\ storeOp.key \notin evictCalls[1].present

\* C17: the LRU ordering of the memory store is a permutation of the stored
\* keys: every stored key occurs in it exactly once and it holds no other key.
C17_OrderIsPermutationOfKeys ==
  /\ { accessOrder[i] : i \in 1..Len(accessOrder) } = DOMAIN cache
  /\ Len(accessOrder) = Cardinality(DOMAIN cache)

\* After an eviction the store holds several keys and the evicted key has
\* left the ordering.
C17_Witness ==
  /\ Len(evictCalls) = 1
  /\ Cardinality(DOMAIN cache) > 1
  /\ \A i \in 1..Len(accessOrder) : accessOrder[i] # evictCalls[1].key

\* C18: get of a present key and set of a present key move the key to the
\* most-recently-used end of the ordering; set of a present key overwrites its
\* entry and evicts nothing, also at capacity; get of an absent key returns
\* undefined and changes nothing.
C18_UseMovesKeyToMostRecentEnd ==
  [][ /\ storeOp'.op = "get" =>
           IF storeOp'.key \in DOMAIN cache
           THEN /\ storeOp'.ret = Some(cache[storeOp'.key])
                /\ cache' = cache
                /\ accessOrder' = usedNow(accessOrder, storeOp'.key)
           ELSE /\ storeOp'.ret = None
                /\ cache' = cache /\ accessOrder' = accessOrder
      /\ (storeOp'.op = "set" /\ storeOp'.key \in DOMAIN cache) =>
           /\ DOMAIN cache' = DOMAIN cache
           /\ cache'[storeOp'.key] = storeOp'.arg[1]
           /\ \A k \in DOMAIN cache \ {storeOp'.key} : cache'[k] = cache[k]
           /\ evictCalls' = << >>
           /\ accessOrder' = usedNow(accessOrder, storeOp'.key) ]_vars

\* A set has overwritten a resident key of a full store: nothing was evicted
\* and the key is now the most recently used one.
C18_Witness ==
  /\ storeOp.op = "set" /\ storeOp.found
  /\ Cardinality(DOMAIN cache) = effectiveMaxSize /\ effectiveMaxSize > 1
  /\ evictCalls = << >>
  /\ accessOrder[Len(accessOrder)] = storeOp.key
  /\ cache[storeOp.key] = storeOp.arg[1]

\* Every call so far is a GET call issued when all earlier calls had settled.
sequentialCalls ==
  \A d \in 1..nCalls : isGet(d) /\ concurrent[d] = {}

\* The fetch that call t originated succeeded and its value was stored.
fetchedAndStored(t) ==
  /\ awaiting[t] = t
  /\ promise[t].st \in {"set", "resolved"}
  /\ shouldCache(promise[t].out.what)

\* C19: over a store of maxSize = 1, in a sequence of GET calls issued one
\* after the other, a call for a key other than the one the previous call
\* fetched and stored is a miss that invokes the producer, and its store.set
\* evicts the resident entry: alternating between two keys never hits.
C19_AlternatingKeysAlwaysMiss ==
  effectiveMaxSize = 1 =>
    \A c \in Calls :
      ( /\ sequentialCalls /\ c <= nCalls
        /\ c > 1 => (keyOf(c) # keyOf(c - 1) /\ fetchedAndStored(c - 1)) ) =>
          /\ gotEntry[c] = None /\ hitCalls[c] = << >>
          /\ pc[c] \in {"wait", "done"} =>
               /\ awaiting[c] = c
               /\ missCalls[c] = << keyOf(c) >>
               /\ fetchCalls[c] = << req[c].url >>
          /\ (c > 1 /\ fetchedAndStored(c)) =>
               /\ Len(evicted[c]) = 1
               /\ evicted[c][1].key = keyOf(c - 1)
               /\ writerOf(evicted[c][1].entry) = c - 1
               /\ evicted[c][1].present = {}

\* Three calls one after the other for /a, /b, /a have each fetched and
\* stored a value: three producer invocations, no hit.
C19_Witness ==
  /\ effectiveMaxSize = 1 /\ nCalls = 3 /\ sequentialCalls
  /\ keyOf(1) = keyOf(3) /\ keyOf(1) # keyOf(2)
  /\ \A c \in 1..3 :
       /\ pc[c] = "done" /\ fetchedAndStored(c)
       /\ Len(fetchCalls[c]) = 1 /\ hitCalls[c] = << >>

\* C20: the miss observer is invoked only by the call that originates a
\* producer invocation, once, with the key, and no later than the step that
\* starts the producer; joiners and cache hits never invoke it, so every GET
\* call has invoked the miss observer as often as the producer.
C20_MissObserverOnlyByOriginator ==
  /\ [] \A c \in Calls :
          isGet(c) =>
            /\ Len(missCalls[c]) = Len(fetchCalls[c])
            /\ missCalls[c] = IF awaiting[c] = c THEN << keyOf(c) >> ELSE << >>
            /\ (awaiting[c] \notin {0, c} \/ entry[c] # None) => missCalls[c] = << >>
  /\ [][ \A c \in Calls :
           /\ (isGet(c) /\ fetchCalls'[c] # fetchCalls[c]) =>
                /\ missCalls[c] = << >> /\ missCalls'[c] = << keyOf(c) >>
                /\ promise[c].st = "none" /\ promise'[c].st = "fetch"
           /\ missCalls'[c] # missCalls[c] => fetchCalls'[c] # fetchCalls[c] ]_vars

\* An originator and a joiner of its computation have both settled: one
\* miss-observer invocation, by the originator.
C20_Witness ==
  \E t, c \in Calls :
    /\ c # t /\ isGet(c) /\ isGet(t)
    /\ awaiting[c] = t /\ awaiting[t] = t
    /\ pc[c] = "done" /\ pc[t] = "done"
    /\ missCalls[t] = << keyOf(t) >> /\ missCalls[c] = << >>

\* C21: every hit-observer invocation is preceded by the miss-observer
\* invocation, for the same key, of the call that originated the fetch of the
\* value the hit serves.
C21_MissObserverPrecedesHit ==
  /\ [] \A c \in Calls :
          hitCalls[c] # << >> =>
            /\ entry[c] # None
            /\ missCalls[writerOf(entry[c][1])] = hitCalls[c]
  /\ [][ \A c \in Calls :
           hitCalls'[c] # hitCalls[c] =>
             /\ entry[c] # None
             /\ writerOf(entry[c][1]) # c
             /\ missCalls[writerOf(entry[c][1])] = << keyOf(c) >>
             /\ hitCalls'[c] = << keyOf(c) >> ]_vars

\* A call has invoked the hit observer for a value another call fetched
\* after invoking the miss observer.
C21_Witness ==
  \E c \in Calls :
    /\ isGet(c) /\ hitCalls[c] = << keyOf(c) >> /\ entry[c] # None
    /\ missCalls[writerOf(entry[c][1])] = << keyOf(c) >>
    /\ missCalls[c] = << >>

\* The fetchPromise of call t was pending when the store was last cleared or
\* its key was last deleted from the store by the store's owner.
disturbed(t) ==
  /\ storeOp.op \in {"delete", "clear"}
  /\ storeOp.op = "delete" => storeOp.key = keyOf(t)
  /\ t \in storeOp.during

\* C22: a store delete or clear made while a fetch for a key is pending does
\* not cancel it: the operation leaves the in-flight table, the fetchPromises
\* and the waiting calls as they were; the fetch settles only with what the
\* producer and the decoder gave; every call that awaited it gets that
\* outcome; and a cache-worthy value is stored as a fresh entry for the key
\* when it arrives.
C22_StoreRemovalDoesNotCancelFetch ==
  /\ [][ (storeOp' # storeOp /\ storeOp'.op \in {"delete", "clear"}) =>
           /\ promise' = promise
           /\ inFlightRequests' = inFlightRequests
           /\ awaiting' = awaiting /\ pc' = pc /\ result' = result
           /\ obsVars' = obsVars ]_vars
  /\ [] \A t \in Calls : disturbed(t) =>
          /\ promise[t].st \in liveStates \cup settledStates
          /\ promise[t].st = "rejected" =>
               promise[t].out.what \in NetErrors \cup {"DecodeError"}
          /\ \A c \in Calls :
               (awaiting[c] = t /\ pc[c] = "done") =>
                 /\ promise[t].st \in settledStates
                 /\ result[c] = promise[t].out
  /\ [][ \A t \in Calls :
           (disturbed(t) /\ promise[t].st = "parse"
              /\ promise'[t].st \in {"set", "resolved"}) =>
             IF shouldCache(promise'[t].out.what)
             THEN /\ promise'[t].st = "set"
                  /\ keyOf(t) \in DOMAIN cache'
                  /\ cache'[keyOf(t)] =
                       [value |-> Value(promise'[t].out.what, t),
                        createdAt |-> now,
                        expiresAt |-> now + timeToLiveOf(req[t].timeToLive)]
             ELSE promise'[t].st = "resolved" /\ cache' = cache ]_vars

\* The store was cleared while call t's fetch was pending; the fetch went on,
\* stored its value for the key after the clear, and two calls got the value.
C22_Witness ==
  \E t \in Calls, c \in Calls :
    /\ c # t /\ storeOp.op = "clear" /\ disturbed(t)
    /\ promise[t].st = "resolved"
    /\ keyOf(t) \in DOMAIN cache /\ writerOf(cache[keyOf(t)]) = t
    /\ awaiting[c] = t /\ awaiting[t] = t
    /\ pc[c] = "done" /\ pc[t] = "done"
    /\ result[c] = promise[t].out /\ result[t] = promise[t].out

positiveFinite(v) ==
  /\ v.type = "number" /\ v.kind = "finite"
  /\ v.n > 0 \/ (v.n = 0 /\ ~v.integral)

\* The value is one of the numbers 1, 2, 3, ...
positiveInteger(v) ==
  v.type = "number" /\ v.kind = "finite" /\ v.integral /\ v.n > 0

\* init.timeToLive is given and is zero, negative, infinite or NaN.
invalidOverride(t) == IF t = None THEN FALSE ELSE ~positiveFinite(t[1])

\* C24: a call whose timeToLive override is zero, negative or not finite
\* rejects with a validation error in the step that issues it, whatever its
\* method: it never calls the producer, it leaves the store, the in-flight
\* table, the fetchPromises and the observers' logs as they were, and its
\* outcome never changes afterwards.
C24_InvalidOverrideFailsBeforeAnyActivity ==
  /\ [][ \A c \in Calls :
           (nCalls' = c /\ nCalls # c /\ invalidOverride(req'[c].timeToLive)) =>
             /\ pc'[c] = "done"
             /\ result'[c] = Rejected("ValidationError", 0)
             /\ storeVars' = storeVars
             /\ inFlightRequests' = inFlightRequests
             /\ promise' = promise
             /\ obsVars' = obsVars ]_vars
  /\ [] \A c \in 1..nCalls :
          invalidOverride(req[c].timeToLive) =>
            /\ pc[c] = "done"
            /\ result[c] = Rejected("ValidationError", 0)
            /\ fetchCalls[c] = << >> /\ hitCalls[c] = << >>
            /\ missCalls[c] = << >> /\ evicted[c] = << >>
            /\ promise[c].st = "none" /\ awaiting[c] = 0

\* A call with an infinite timeToLive was rejected, and a valid call issued
\* after it fetched, stored and resolved.
C24_Witness ==
  \E c \in Calls, d \in Calls :
    /\ c < d /\ d <= nCalls
    /\ req[c].timeToLive = Some(PosInfinity)
    /\ result[c] = Rejected("ValidationError", 0)
    /\ isGet(d) /\ pc[d] = "done" /\ result[d].kind = "value"
    /\ fetchCalls[d] # << >>
    /\ keyOf(d) \in DOMAIN cache /\ writerOf(cache[keyOf(d)]) = d

\* memoryStoreOptions.maxSize is given and is not a positive integer.
invalidMaxSize(m) == IF m = None THEN FALSE ELSE ~positiveInteger(m[1])

\* C25: a factory call ends by throwing exactly when its configuration is
\* invalid, and then nothing has been created. createCachedFetch throws when
\* its timeToLive is not a positive finite number, or when it has to create
\* the memory store itself and maxSize is given and is not a positive
\* integer; createMemoryStore throws when maxSize is given and is not a
\* positive integer. Every other configuration returns, and a store that was
\* created has the capacity asked for, or the default one.
C25_InvalidConfigurationThrows ==
  construction.outcome # "pending" =>
    LET o == construction.options
        invalid ==
          IF construction.fn = "createMemoryStore" THEN invalidMaxSize(o.maxSize)
          ELSE \/ ~positiveFinite(o.timeToLive)
               \/ ~o.store /\ invalidMaxSize(o.maxSize)
        createsStore == construction.fn = "createMemoryStore" \/ ~o.store
    IN  /\ construction.outcome = (IF invalid THEN "threw" ELSE "returned")
        /\ cache = << >> /\ accessOrder = << >> /\ nCalls = 0
        /\ \A k \in Keys : inFlightRequests[k] = 0
        /\ effectiveMaxSize =
             IF invalid \/ ~createsStore THEN 0
             ELSE IF o.maxSize = None THEN DefaultMaxSize
             ELSE o.maxSize[1].n

\* createCachedFetch threw because maxSize was 1.5, with a valid timeToLive.
C25_Witness ==
  /\ construction =
       Construction("createCachedFetch",
                    Options(num(1), FALSE, Some(half(1))), "threw")
  /\ effectiveMaxSize = 0

\* The path and the query of a URL: an empty path reads "/", and a URL with
\* no query has the empty query.
pathAndQuery(url) ==
  << IF url.path = "" THEN "/" ELSE url.path,
     IF url.query = None THEN "" ELSE url.query[1] >>

samePathAndQuery(c, d) == pathAndQuery(req[c].url) = pathAndQuery(req[d].url)

\* The call whose fetch gave call c its value: the writer of the entry it
\* hit, or the owner of the fetchPromise it returned (0 while undecided).
servedBy(c) == IF entry[c] # None THEN writerOf(entry[c][1]) ELSE awaiting[c]

\* C26: GET calls have the same key exactly when their URLs have the same
\* path and query, whatever the scheme and host. A call is served by another
\* call's fetch only when the two agree in path and query; the lookup of a
\* call finds an entry exactly when a call with its path and query wrote one
\* that is still in the store; and a call that missed joins the in-flight
\* fetch registered for its path and query when there is one, and starts its
\* own otherwise.
C26_KeyIsPathAndQuery ==
  /\ [] \A c \in 1..nCalls, d \in 1..nCalls :
          (keyOf(c) = keyOf(d)) <=> samePathAndQuery(c, d)
  /\ [] \A c \in 1..nCalls :
          servedBy(c) # 0 => samePathAndQuery(c, servedBy(c))
  /\ [][ \A d \in Calls :
           (nCalls' = d /\ nCalls # d) =>
             LET written == { k \in DOMAIN cache :
                                pathAndQuery(req[writerOf(cache[k])].url)
                                  = pathAndQuery(req'[d].url) }
             IN  IF written = {} THEN gotEntry'[d] = None
                 ELSE \E k \in written : gotEntry'[d] = Some(cache[k]) ]_vars
  /\ [][ \A d \in Calls :
           (pc[d] = "checked" /\ pc'[d] # "checked" /\ entry[d] = None) =>
             LET registered == { t \in Calls :
                                   /\ inFlightRequests[keyOf(t)] = t
                                   /\ samePathAndQuery(t, d) }
             IN  IF registered = {}
                 THEN awaiting'[d] = d /\ fetchCalls'[d] = << req[d].url >>
                 ELSE awaiting'[d] \in registered /\ fetchCalls'[d] = << >> ]_vars

\* A call for http://h2/a was served from the store, without a fetch of its
\* own, the value that a call for https://h1/a had fetched.
C26_Witness ==
  \E t \in Calls, d \in Calls :
    /\ req[t].url = Url("https", "h1", "/a", None)
    /\ req[d].url = Url("http", "h2", "/a", None)
    /\ isGet(d) /\ pc[d] = "done" /\ entry[d] # None /\ servedBy(d) = t
    /\ fetchCalls[d] = << >> /\ result[d] = result[t]

sameOrchestrator(c, d) == (c \in other.calls) <=> (d \in other.calls)

\* C27: with two orchestrators that were each constructed without a store,
\* a call is served, from the store or by joining, only by a fetch made
\* through its own orchestrator; each store and each in-flight table holds
\* only what calls of its own orchestrator put there; the onEvictCallback of
\* a store is invoked only for entries its own orchestrator wrote; and a step
\* of one orchestrator (a lookup, a fetch, a store write, an observer
\* invocation) leaves the store and the in-flight table of the other as they
\* were.
C27_OrchestratorsShareNoState ==
  /\ [] \A c \in 1..nCalls :
          /\ servedBy(c) # 0 => sameOrchestrator(c, servedBy(c))
          /\ gotEntry[c] # None => sameOrchestrator(c, writerOf(gotEntry[c][1]))
          /\ \A i \in 1..Len(evicted[c]) :
               sameOrchestrator(c, writerOf(evicted[c][i].entry))
  /\ [] /\ \A k \in DOMAIN cache : writerOf(cache[k]) \in ownCalls
        /\ \A k \in DOMAIN other.cache : writerOf(other.cache[k]) \in other.calls
        /\ \A k \in Keys :
             /\ inFlightRequests[k] \in ownCalls \cup {0}
             /\ other.inFlightRequests[k] \in other.calls \cup {0}
  /\ [][ other'.calls = other.calls =>
           /\ other' = other
           /\ \A c \in other.calls :
                /\ hitCalls'[c] = hitCalls[c] /\ missCalls'[c] = missCalls[c]
                /\ fetchCalls'[c] = fetchCalls[c] /\ evicted'[c] = evicted[c]
                /\ awaiting'[c] = awaiting[c] /\ result'[c] = result[c] ]_vars

\* Two calls for one URL, one through each orchestrator: the later one was
\* issued after the earlier one had stored its value, and still missed,
\* fetched and stored for itself.
C27_Witness ==
  \E c \in ownCalls, d \in other.calls :
    /\ c > d /\ req[c].url = req[d].url
    /\ issuedWhile[c] = "absent" /\ concurrent[c] = {}
    /\ pc[c] = "done" /\ pc[d] = "done"
    /\ fetchCalls[c] # << >> /\ fetchCalls[d] # << >>
    /\ missCalls[c] # << >> /\ hitCalls[c] = << >>
    /\ keyOf(c) \in DOMAIN cache /\ writerOf(cache[keyOf(c)]) = c
    /\ keyOf(d) \in DOMAIN other.cache /\ writerOf(other.cache[keyOf(d)]) = d

\* C28: isExpired(entry) is true exactly when the current time is greater
\* than entry.expiresAt: at the expiry time itself the entry is not expired,
\* one tick later it is, and an entry that is expired stays expired as time
\* goes on.
C28_ExpiredIffStrictlyAfter ==
  /\ [] (storeOp.op = "isExpired" =>
           LET e == storeOp.arg[1]
               answer == storeOp.ret[1]
           IN  /\ answer.expired <=> answer.at > e.expiresAt
               /\ answer.at = e.expiresAt => ~answer.expired
               /\ answer.at = e.expiresAt + 1 => answer.expired)
  /\ [][ \A e \in ExpiryEntries : isExpired(e) => isExpired(e)' ]_vars

\* isExpired was evaluated at the very time an entry expires, and said no.
C28_Witness ==
  /\ storeOp.op = "isExpired"
  /\ storeOp.ret[1].at = storeOp.arg[1].expiresAt
  /\ storeOp.ret[1].expired = FALSE
  /\ now > storeOp.ret[1].at

\* The step is a direct store operation of the given kind.
storeStep(op) == now' = now /\ storeOp'.op = op

\* C29: the memory store never looks at expiry. get returns the entry that
\* is present under the key, expired or not, and leaves every entry in place;
\* has tells whether the key is present, expired or not, and changes neither
\* the entries nor the recency order; the passing of time changes nothing in
\* the store; and a key leaves the store only through delete, clear, or an
\* eviction by set.
C29_StoreIgnoresExpiry ==
  /\ [][ storeStep("get") =>
           /\ storeOp'.ret = (IF storeOp'.key \in DOMAIN cache
                              THEN Some(cache[storeOp'.key]) ELSE None)
           /\ cache' = cache ]_vars
  /\ [][ storeStep("has") =>
           /\ storeOp'.ret = Some(storeOp'.key \in DOMAIN cache)
           /\ cache' = cache /\ accessOrder' = accessOrder
           /\ recency' = recency ]_vars
  /\ [][ now' # now => storeVars' = storeVars /\ recency' = recency ]_vars
  /\ [][ \A k \in DOMAIN cache :
           k \notin DOMAIN cache' =>
             \/ storeStep("delete") /\ storeOp'.key = k
             \/ storeStep("clear")
             \/ /\ storeStep("set")
                /\ \E i \in 1..Len(evictCalls') : evictCalls'[i].key = k ]_vars

\* get returned an entry that had already expired, and the entry is still in
\* the store.
C29_Witness ==
  /\ storeOp.op = "get" /\ storeOp.ret # None
  /\ now > storeOp.ret[1].expiresAt
  /\ storeOp.key \in DOMAIN cache
  /\ cache[storeOp.key] = storeOp.ret[1]

C32_NonGetTouchesNeitherStoreNorTable ==
  /\ [][ \A c \in Calls :
           (pc'[c] # pc[c] /\ req'[c].method # "GET") =>
             /\ storeVars' = storeVars
             /\ inFlightRequests' = inFlightRequests
             /\ promise' = promise
             /\ hitCalls' = hitCalls /\ missCalls' = missCalls
             /\ evicted' = evicted ]_vars
  /\ [] \A c \in 1..nCalls :
          req[c].method # "GET" =>
            /\ gotEntry[c] = None /\ entry[c] = None
            /\ awaiting[c] = 0 /\ promise[c].st = "none"
            /\ \A k \in Keys : inFlightRequests[k] # c
            /\ \A k \in DOMAIN cache : writerOf(cache[k]) # c

\* A non-GET call for a path fetched and resolved while the store held the
\* entry of an earlier GET call for the same path; the entry is still there.
C32_Witness ==
  \E g \in Calls, c \in Calls :
    /\ g < c /\ c <= nCalls /\ keyOf(g) = keyOf(c)
    /\ isGet(g) /\ isNonGet(c)
    /\ issuedWhile[c] # "absent"
    /\ pc[c] = "done" /\ result[c].kind = "value" /\ result[c].resp = c
    /\ fetchCalls[c] = << req[c].url >>
    /\ keyOf(c) \in DOMAIN cache /\ writerOf(cache[keyOf(c)]) = g

\* C33 as stated: whatever the producer does, the fetchPromise a call
\* originates or joins has not settled when the call returns it and is the
\* one registered for the key, and an entry of the in-flight table always
\* refers to a fetchPromise that has not settled: the cleanup of a
\* computation removes the entry that was published for it.
C33_PublishedBeforeCleanup ==
  /\ [][ \A c \in Calls :
           (pc[c] = "checked" /\ pc'[c] = "wait") =>
             /\ promise'[awaiting'[c]].st \in liveStates
             /\ inFlightRequests'[keyOf(c)] = awaiting'[c] ]_vars
  /\ [] \A k \in Keys :
          inFlightRequests[k] # 0 =>
            promise[inFlightRequests[k]].st \in liveStates

\* C34 as stated: the producer is never invoked for the key of a GET call
\* while the store holds an entry for that key that has not expired.
C34_NoFetchWhileValidEntryStored ==
  [][ \A c \in Calls :
        (fetchCalls'[c] # fetchCalls[c] /\ req'[c].method = "GET") =>
          \/ keyOf(c) \notin DOMAIN cache
          \/ isExpired(cache[keyOf(c)]) ]_vars

\* C35 as stated: when getValidEntry calls store.delete(key) for an entry it
\* found expired, the entry the store holds for the key at that moment, if
\* any, is expired.
C35_LazyDeletionRemovesOnlyExpired ==
  [][ \A c \in Calls :
        (pc[c] = "storeGet" /\ pc'[c] = "storeDelete") =>
          (keyOf(c) \in DOMAIN cache => isExpired(cache[keyOf(c)])) ]_vars

\* The fetchPromise of call t has a decoded value that shouldCache accepts
\* and a call that returned it has not yet been notified.
successPending(t) ==
  /\ promise[t].st \in {"set", "resolved"}
  /\ promise[t].out.kind = "value" /\ shouldCache(promise[t].out.what)
  /\ \E c \in Calls : pc[c] = "wait" /\ awaiting[c] = t

C37_HitLeavesEntryUnchanged ==
  [][ /\ \A c \in Calls :
           /\ (nCalls' = c /\ nCalls = c - 1 /\ pc'[c] = "storeGet") =>
                /\ cache' = cache
                /\ accessOrder' =
                     IF keyOf(c)' \in DOMAIN cache
                     THEN updateAccessOrder(accessOrder, keyOf(c)')
                     ELSE accessOrder
           /\ (pc[c] = "checked" /\ pc'[c] = "done") => storeVars' = storeVars
           /\ (pc[c] = "checked" /\ pc'[c] = "wait" /\ awaiting'[c] # c) =>
                storeVars' = storeVars
           /\ (pc[c] = "wait" /\ pc'[c] = "done") => storeVars' = storeVars
      /\ \A k \in DOMAIN cache \cap DOMAIN cache' :
           cache'[k] # cache[k] =>
             \E t \in Calls :
               /\ promise[t].st = "parse" /\ promise'[t].st = "set"
               /\ keyOf(t) = k /\ awaiting[t] = t
               /\ writerOf(cache'[k]) = t
               /\ lifetime(cache'[k]) = timeToLiveOf(req[t].timeToLive) ]_vars

\* A call with a timeToLive override other than the entry's lifetime has
\* returned the cached value some time after the entry was created; the
\* entry in the store is still the one the call read, written by an earlier
\* call.
C37_Witness ==
  \E c \in Calls :
    /\ isGet(c) /\ entry[c] # None /\ pc[c] = "done"
    /\ hitCalls[c] = << keyOf(c) >>
    /\ req[c].timeToLive # None
    /\ keyOf(c) \in DOMAIN cache /\ cache[keyOf(c)] = entry[c][1]
    /\ timeToLiveOf(req[c].timeToLive) # lifetime(entry[c][1])
    /\ entry[c][1].createdAt < now /\ writerOf(entry[c][1]) # c

\* C38: delete(key) leaves the store without the key, every other key with
\* the entry it had, and the recency order as it was with the key taken out;
\* delete of an absent key changes neither; clear leaves the store and the
\* order empty.
C38_DeleteRemovesExactlyTheKey ==
  [][ /\ storeStep("delete") =>
           /\ DOMAIN cache' = DOMAIN cache \ {storeOp'.key}
           /\ \A k \in DOMAIN cache' : cache'[k] = cache[k]
           /\ accessOrder' = without(accessOrder, {storeOp'.key})
           /\ storeOp'.key \notin DOMAIN cache => storeVars' = storeVars
      /\ storeStep("clear") =>
           cache' = << >> /\ accessOrder' = << >> ]_vars

\* After the delete of the second of three keys the store holds the two
\* others, the third less recently used than the first.
C38_Witness ==
  /\ storeOp.op = "delete" /\ storeOp.key = storeKey(2)
  /\ DOMAIN cache = {storeKey(1), storeKey(3)}
  /\ accessOrder = << storeKey(3), storeKey(1) >>
  /\ effectiveMaxSize = MaxStoreSize + 1

\* A step in which the owner of the store calls op on it.
ownerStep(op) ==
  /\ storeOp'.op = op
  /\ now' = now /\ nCalls' = nCalls /\ pc' = pc /\ promise' = promise

\* C39: the eviction callback runs only when a set inserts a new key into a
\* full store. get, has, delete and clear by the store's owner, a set that
\* overwrites a resident key, the lookup of a GET call and its deletion of an
\* entry it found expired invoke it for no key; when it does run, for the
\* owner's set or for the store.set of a fetch, the key being set was absent
\* and the store full.
C39_CallbackOnlyForCapacityEviction ==
  [][ /\ \A op \in {"get", "has", "delete", "clear"} :
           ownerStep(op) => evictCalls' = << >> /\ evicted' = evicted
      /\ ownerStep("set") =>
           /\ evicted' = evicted
           /\ storeOp'.key \in DOMAIN cache => evictCalls' = << >>
           /\ evictCalls' # << >> =>
                /\ storeOp'.key \notin DOMAIN cache
                /\ Cardinality(DOMAIN cache) >= effectiveMaxSize
      /\ \A c \in Calls :
           /\ (nCalls' = c /\ nCalls = c - 1) =>
                evicted' = evicted /\ evictCalls' = evictCalls
           /\ (pc[c] = "storeGet" /\ pc'[c] # "storeGet") =>
                evicted' = evicted /\ evictCalls' = evictCalls
           /\ (pc[c] = "storeDelete" /\ pc'[c] # "storeDelete") =>
                evicted' = evicted /\ evictCalls' = evictCalls
           /\ evicted'[c] # evicted[c] =>
                /\ promise[c].st = "parse" /\ promise'[c].st = "set"
                /\ keyOf(c) \notin DOMAIN cache
                /\ Cardinality(DOMAIN cache) >= effectiveMaxSize
                /\ \A i \in 1..Len(evicted'[c]) :
                     /\ evicted'[c][i].key \in DOMAIN cache
                     /\ evicted'[c][i].key \notin DOMAIN cache' ]_vars

\* The store.set of a call's fetch evicted the owner's key and the callback
\* ran for it; the entry it stored expired and a later call has deleted it
\* on lookup, with no callback.
C39_Witness ==
  \E t \in Calls, c \in Calls :
    /\ t < c /\ c <= nCalls
    /\ Len(evicted[t]) = 1 /\ evicted[t][1].key = OwnerKey
    /\ pc[c] = "storeDelete" /\ gotEntry[c] # None
    /\ writerOf(gotEntry[c][1]) = t /\ isExpired(gotEntry[c][1])
    /\ keyOf(c) \notin DOMAIN cache
    /\ evicted[c] = << >>

\* The fetchPromise of call t rejected with what shouldCache threw or what
\* store.set rejected with.
failedAfterResponse(t) ==
  promise[t].st = "rejected" /\ promise[t].out.what \in StoreFailures

\* C40: when shouldCache throws or store.set rejects, the step in which the
\* fetchPromise rejects removes the in-flight entry of its key and leaves the
\* store alone; no key stays registered for a fetchPromise that failed so;
\* the originator and every joiner that have been notified reject with that
\* failure and only the originator invoked the producer; and no call joins
\* the failed fetchPromise afterwards.
C40_FailureAfterResponseCleansUp ==
  /\ [][ \A t \in Calls :
           /\ (~failedAfterResponse(t) /\ failedAfterResponse(t)') =>
                /\ inFlightRequests[keyOf(t)] = t
                /\ inFlightRequests'[keyOf(t)] = 0
                /\ storeVars' = storeVars
           /\ \A c \in Calls :
                (pc[c] = "checked" /\ pc'[c] = "wait" /\ awaiting'[c] = t) =>
                  ~failedAfterResponse(t)' ]_vars
  /\ [] \A t \in Calls :
          failedAfterResponse(t) =>
            /\ \A k \in Keys : inFlightRequests[k] # t
            /\ \A c \in Calls :
                 (awaiting[c] = t /\ pc[c] = "done") =>
                   /\ result[c] = promise[t].out
                   /\ result[c].kind = "error" /\ result[c].resp = t
                   /\ c # t => fetchCalls[c] = << >>

\* store.set rejected for a fetch that two calls were following: both have
\* rejected with the store's error, and a call issued afterwards for the
\* same key has invoked the producer anew and is registered in flight.
C40_Witness ==
  \E t \in Calls, j \in Calls, c \in Calls :
    /\ t # j /\ j < c /\ t < c
    /\ keyOf(t) = keyOf(j) /\ keyOf(j) = keyOf(c)
    /\ awaiting[t] = t /\ awaiting[j] = t
    /\ failedAfterResponse(t) /\ promise[t].out.what = "StoreError"
    /\ pc[t] = "done" /\ pc[j] = "done"
    /\ result[t] = promise[t].out /\ result[j] = promise[t].out
    /\ awaiting[c] = c /\ promise[c].st = "fetch"
    /\ fetchCalls[c] = << req[c].url >>
    /\ inFlightRequests[keyOf(c)] = c

====
